---- MODULE Spec2Model ----
(***************************************************************************)
(* A model of the dialog context store (context_manager.py), the inference *)
(* client (ai_client.py, HuggingFaceClient) and the conversation           *)
(* orchestrator (ai_client.py, AIService.process_message).                 *)
(*                                                                         *)
(* Texts are sequences of single characters; the long fixed texts of the   *)
(* program (messages, prompt labels) are abbreviated.                      *)
(* Time is an integer clock `now` in seconds; datetime.now() and the       *)
(* cache's timer both read it.                                             *)
(***************************************************************************)
EXTENDS Integers, Sequences, FiniteSets, TLC

\* ------------------------------------------------------------------ bounds
Users == {1, 2}
MaxLen == 2          \* max_context_length is drawn from 0..MaxLen
MaxTimeout == 1      \* session_timeout is drawn from 0..MaxTimeout
MaxAppends == 2      \* appends to one context object between two resets
MaxTime == 2         \* the clock stops advancing here

Contents == {<<"h", "i">>}

NoCtx == [none |-> TRUE]
\* Python's None where a text is expected: a value that is no text (a text is a
\* sequence of single characters).
None == <<"None">>
NoCall == [none |-> TRUE]
NoBody == [kind |-> "none"]

VARIABLES
    max_context_length,  \* ContextManager.max_context_length
    session_timeout,     \* ContextManager.session_timeout
    contexts,            \* ContextManager.contexts: user_id -> DialogContext (or NoCtx)
    now,                 \* the clock
    appended,            \* history variable: per user, what was appended to the stored
                         \* context object since it was created or cleared
    cache,               \* HuggingFaceClient.cache: the live and stale entries, oldest first
    gen,                 \* the generate_response call in progress: its locals and position
    prev,                \* history variable: the generate_response call completed last
    elapsed,             \* history variable: how often time passed between steps
    request_count,       \* AIService.request_count
    error_count,         \* AIService.error_count
    svc,                 \* the process_message call in progress: its locals and position
    threads,             \* the store calls in progress on the executor's threads: per
                         \* thread, its locals and position
    objs,                \* one context's message list as Python objects: the dicts,
                         \* the list of the context and a list a caller was handed
    call                 \* the helper or handler call made last: its name, its
                         \* argument and what it returned

storeVars == <<max_context_length, session_timeout, contexts, now, appended>>
clientVars == <<cache, gen, prev, elapsed>>
serviceVars == <<request_count, error_count, svc>>
vars == <<storeVars, clientVars, serviceVars, threads, objs, call>>

\* No helper has been called.
Uncalled == [fn |-> "none"]

\* ------------------------------------------------------- DialogContext
\* s[start:] of Python, for any integer start.
PySliceFrom(s, start) ==
    LET n == Len(s)
        lo == IF start < 0 THEN (IF n + start < 0 THEN 0 ELSE n + start)
                           ELSE (IF start > n THEN n ELSE start)
    IN  SubSeq(s, lo + 1, n)

\* DialogContext.__init__
DialogContext(user_id, max_length, timeout, t) ==
    [user_id |-> user_id, max_length |-> max_length, timeout |-> timeout,
     created_at |-> t, updated_at |-> t, messages |-> <<>>]

\* The cap of add_message: messages[-max_length:] when the list is too long.
Truncate(msgs, max_length) ==
    IF Len(msgs) > max_length THEN PySliceFrom(msgs, 0 - max_length) ELSE msgs

\* An add_message that does not refresh updated_at.
add_message_stale(ctx, role, content, t) ==
    LET message == [role |-> role, content |-> content, timestamp |-> t]
    IN  [ctx EXCEPT !.messages = Truncate(Append(ctx.messages, message), ctx.max_length)]

\* DialogContext.add_message
add_message(ctx, role, content, t) ==
    LET message == [role |-> role, content |-> content, timestamp |-> t]
    IN  [ctx EXCEPT !.updated_at = t,
                    !.messages = Truncate(Append(ctx.messages, message), ctx.max_length)]

\* A clear_history that leaves updated_at as it was.
clear_history_stale(ctx, t) == [ctx EXCEPT !.messages = <<>>]

\* DialogContext.clear_history
clear_history(ctx, t) == [ctx EXCEPT !.messages = <<>>, !.updated_at = t]

\* An expiry test that counts the last second of the timeout as expired.
is_expired_inclusive(ctx, t) == t >= ctx.updated_at + ctx.timeout

\* DialogContext.is_expired
is_expired(ctx, t) == t > ctx.updated_at + ctx.timeout

\* ------------------------------------------------------- ContextManager
\* Whether get_context replaces the entry of user_id.
NeedsNew(cs, user_id, t) ==
    IF cs[user_id] = NoCtx THEN TRUE ELSE is_expired(cs[user_id], t)

\* A get_context that creates a context only where none is stored.
get_context_missing_only(cs, user_id, t) ==
    IF cs[user_id] = NoCtx
    THEN [cs EXCEPT ![user_id] =
              DialogContext(user_id, max_context_length, session_timeout, t)]
    ELSE cs

\* A get_context that, while it is at it, drops the expired contexts of the
\* other users.
get_context_sweeping(cs, user_id, t) ==
    [v \in Users |->
        IF v = user_id
        THEN IF NeedsNew(cs, v, t)
             THEN DialogContext(v, max_context_length, session_timeout, t)
             ELSE cs[v]
        ELSE IF cs[v] # NoCtx /\ is_expired(cs[v], t) THEN NoCtx ELSE cs[v]]

\* ContextManager.get_context: the mapping it leaves (the context it returns is
\* the entry of user_id in it).
get_context(cs, user_id, t) ==
    IF NeedsNew(cs, user_id, t)
    THEN [cs EXCEPT ![user_id] =
              DialogContext(user_id, max_context_length, session_timeout, t)]
    ELSE cs

\* ContextManager.add_user_message / add_bot_message: get_context, then add_message.
add_to_context(cs, user_id, role, content, t) ==
    LET cs1 == get_context(cs, user_id, t)
    IN  [cs1 EXCEPT ![user_id] = add_message(cs1[user_id], role, content, t)]

\* The history variable after an append for user_id.
LogAfterAppend(cs, log, user_id, role, content, t) ==
    LET m == [role |-> role, content |-> content, timestamp |-> t]
        base == IF NeedsNew(cs, user_id, t) THEN <<>> ELSE log[user_id]
    IN  [log EXCEPT ![user_id] = Append(base, m)]

LogAfterGet(cs, log, user_id, t) ==
    IF NeedsNew(cs, user_id, t) THEN [log EXCEPT ![user_id] = <<>>] ELSE log

\* Appends are capped so that the state space stays finite when the cap of
\* add_message does not bite.
CanAppend(user_id) ==
    IF NeedsNew(contexts, user_id, now) THEN TRUE
    ELSE Len(appended[user_id]) < MaxAppends

GetContext(u) ==
    /\ contexts' = get_context(contexts, u, now)
    /\ appended' = LogAfterGet(contexts, appended, u, now)
    /\ UNCHANGED <<max_context_length, session_timeout, now, clientVars, serviceVars,
                   threads, objs, call>>

AddUserMessage(u, c) ==
    /\ CanAppend(u)
    /\ contexts' = add_to_context(contexts, u, "user", c, now)
    /\ appended' = LogAfterAppend(contexts, appended, u, "user", c, now)
    /\ UNCHANGED <<max_context_length, session_timeout, now, clientVars, serviceVars,
                   threads, objs, call>>

AddBotMessage(u, c) ==
    /\ CanAppend(u)
    /\ contexts' = add_to_context(contexts, u, "assistant", c, now)
    /\ appended' = LogAfterAppend(contexts, appended, u, "assistant", c, now)
    /\ UNCHANGED <<max_context_length, session_timeout, now, clientVars, serviceVars,
                   threads, objs, call>>

\* ContextManager.get_conversation_history: get_context, then a copy of the list.
GetConversationHistory(u) ==
    /\ contexts' = get_context(contexts, u, now)
    /\ appended' = LogAfterGet(contexts, appended, u, now)
    /\ UNCHANGED <<max_context_length, session_timeout, now, clientVars, serviceVars,
                   threads, objs, call>>

\* A reset that deletes the record instead of emptying it.
ClearUserContext_deleting(u) ==
    /\ contexts' = [contexts EXCEPT ![u] = NoCtx]
    /\ appended' = [appended EXCEPT ![u] = <<>>]
    /\ UNCHANGED <<max_context_length, session_timeout, now, clientVars, serviceVars,
                   threads, objs, call>>

\* ContextManager.clear_user_context: the value it returns.
clear_user_context_returns(cs, user_id) == cs[user_id] # NoCtx

\* ContextManager.clear_user_context
ClearUserContext(u) ==
    /\ IF contexts[u] # NoCtx
       THEN /\ contexts' = [contexts EXCEPT ![u] = clear_history(contexts[u], now)]
            /\ appended' = [appended EXCEPT ![u] = <<>>]
       ELSE UNCHANGED <<contexts, appended>>
    /\ UNCHANGED <<max_context_length, session_timeout, now, clientVars, serviceVars,
                   threads, objs, call>>

\* A sweep that takes every context not touched in this instant for expired.
expired_users_idle(cs, t) ==
    {u \in Users : IF cs[u] = NoCtx THEN FALSE ELSE t > cs[u].updated_at}

\* ContextManager.cleanup_expired_contexts
expired_users(cs, t) == {u \in Users : cs[u] # NoCtx /\ is_expired(cs[u], t)}

\* ContextManager.cleanup_expired_contexts: the value it returns.
cleanup_expired_contexts_returns(cs, t) == Cardinality(expired_users(cs, t))

CleanupExpiredContexts ==
    LET gone == expired_users(contexts, now)
    IN  /\ contexts' = [u \in Users |-> IF u \in gone THEN NoCtx ELSE contexts[u]]
        /\ appended' = [u \in Users |-> IF u \in gone THEN <<>> ELSE appended[u]]
        /\ UNCHANGED <<max_context_length, session_timeout, now, clientVars, serviceVars,
                       threads, objs, call>>

\* Time passes.
Tick ==
    /\ now < MaxTime
    /\ now' = now + 1
    /\ UNCHANGED <<max_context_length, session_timeout, contexts, appended, clientVars,
                 serviceVars, threads, objs, call>>


\* ------------------------------------------------------------------ texts
\* A text is a sequence of characters.  Long literals of the code are written
\* short: the role labels keep their final colon, the canned messages are one
\* word each.
ASSISTANT_MARKER == <<"A", ":">>                \* 'Ассистент:'
USER_LABEL == <<"U", ":">>                      \* 'Пользователь:'
PREAMBLE == <<"s", "y", "s", ".">>              \* the system line of the prompt
GREETING_PROMPT == <<"g", "r", "e", "e", "t", ".">>
GREETING_REPLY == <<"h", "e", "l", "l", "o", "!">>
FALLBACK_REPLY == <<"s", "o", "r", "r", "y", ".">>   \* 'Извините, не удалось ...'
MSG_api_timeout == <<"l", "a", "t", "e", "r", ".">>  \* config.MESSAGES['api_timeout']
MSG_error == <<"e", "r", "r", "o", "r", ".">>        \* config.MESSAGES['error']
MSG_content_warning == <<"w", "a", "r", "n", ".">>   \* config.MESSAGES['content_warning']

Whitespace == {" ", "\n", "\t"}
Terminals == {".", "!", "?", ":", ")", "]", "}"}

\* Whether pattern p occurs in s at position i.
OccursAt(s, p, i) ==
    /\ i >= 1
    /\ i + Len(p) - 1 <= Len(s)
    /\ SubSeq(s, i, i + Len(p) - 1) = p

\* p in s
Contains(s, p) == \E i \in 1..(Len(s) + 1) : OccursAt(s, p, i)

\* s.split(p)[-1] for a non-empty p: what follows the last occurrence found by
\* the left-to-right scan for non-overlapping occurrences.
RECURSIVE AfterLastFrom(_, _, _, _)
AfterLastFrom(s, p, i, start) ==
    IF i + Len(p) - 1 > Len(s) THEN SubSeq(s, start, Len(s))
    ELSE IF OccursAt(s, p, i) THEN AfterLastFrom(s, p, i + Len(p), i + Len(p))
    ELSE AfterLastFrom(s, p, i + 1, start)

AfterLast(s, p) == AfterLastFrom(s, p, 1, 1)

\* s.strip()
RECURSIVE LStrip(_)
LStrip(s) == IF s # <<>> /\ Head(s) \in Whitespace THEN LStrip(Tail(s)) ELSE s

RECURSIVE RStrip(_)
RStrip(s) ==
    IF s # <<>> /\ s[Len(s)] \in Whitespace THEN RStrip(SubSeq(s, 1, Len(s) - 1)) ELSE s

Strip(s) == RStrip(LStrip(s))

\* s.split(): the maximal runs of non-whitespace characters.
RECURSIVE SplitWsFrom(_, _, _)
SplitWsFrom(s, cur, out) ==
    IF s = <<>> THEN (IF cur = <<>> THEN out ELSE Append(out, cur))
    ELSE IF Head(s) \in Whitespace
         THEN SplitWsFrom(Tail(s), <<>>, IF cur = <<>> THEN out ELSE Append(out, cur))
         ELSE SplitWsFrom(Tail(s), Append(cur, Head(s)), out)

SplitWs(s) == SplitWsFrom(s, <<>>, <<>>)

\* sep.join(parts)
RECURSIVE Join(_, _)
Join(sep, parts) ==
    IF parts = <<>> THEN <<>>
    ELSE IF Len(parts) = 1 THEN parts[1]
    ELSE parts[1] \o sep \o Join(sep, Tail(parts))

\* s[:n]
Take(s, n) == SubSeq(s, 1, IF Len(s) < n THEN Len(s) ELSE n)

\* ------------------------------------------------------ HuggingFaceClient
MAX_RETRIES == 3         \* config.MAX_RETRIES
CACHE_MAXSIZE == 100     \* TTLCache(maxsize=100, ...)
CACHE_TTL == 300         \* TTLCache(..., ttl=300)
CLEAN_LIMIT == 1000      \* the longest reply _clean_response leaves uncut
PROMPT_WINDOW == 6       \* the history entries _build_prompt renders
BACKOFF_503 == 5         \* seconds, times the attempt number
BACKOFF_429 == 10        \* seconds

\* `is not None` in place of the truth value.
NotNone(x) == x # None

\* Python's truth value of a text or None.
Truthy(x) == x # None /\ x # <<>>

\* HuggingFaceClient._build_prompt
PromptLine(msg) ==
    IF msg.role = "user" THEN <<USER_LABEL \o <<" ">> \o msg.content>>
    ELSE IF msg.role = "assistant" THEN <<ASSISTANT_MARKER \o <<" ">> \o msg.content>>
    ELSE <<>>

RECURSIVE PromptLines(_)
PromptLines(h) == IF h = <<>> THEN <<>> ELSE PromptLine(Head(h)) \o PromptLines(Tail(h))

\* A prompt that renders the whole history.
_build_prompt_unwindowed(conversation_history) ==
    IF conversation_history = <<>> THEN GREETING_PROMPT
    ELSE Join(<<"\n">>, <<PREAMBLE>> \o PromptLines(conversation_history)
                            \o <<ASSISTANT_MARKER>>)

_build_prompt(conversation_history) ==
    IF conversation_history = <<>> THEN GREETING_PROMPT
    ELSE LET recent_history == PySliceFrom(conversation_history, 0 - PROMPT_WINDOW)
             prompt_parts == <<PREAMBLE>> \o PromptLines(recent_history)
                                 \o <<ASSISTANT_MARKER>>
         IN  Join(<<"\n">>, prompt_parts)

\* A response body is [kind |-> "list", items |-> <<item, ...>>] with each item
\* [isdict |-> BOOLEAN, fields |-> a record], or [kind |-> "dict", fields |-> a
\* record], or [kind |-> "other"].
HasField(fields, name) == name \in DOMAIN fields

\* An extraction that cuts at the first occurrence of the marker.
RECURSIVE ExtractFromList_first_marker(_)
ExtractFromList_first_marker(items) ==
    IF items = <<>> THEN None
    ELSE LET item == Head(items)
         IN  IF item.isdict /\ HasField(item.fields, "generated_text")
             THEN LET text == item.fields.generated_text
                      at == CHOOSE i \in 1..Len(text) :
                                /\ OccursAt(text, ASSISTANT_MARKER, i)
                                /\ \A j \in 1..(i - 1) : ~OccursAt(text, ASSISTANT_MARKER, j)
                  IN  IF Contains(text, ASSISTANT_MARKER)
                      THEN Strip(SubSeq(text, at + Len(ASSISTANT_MARKER), Len(text)))
                      ELSE text
             ELSE ExtractFromList_first_marker(Tail(items))

\* The list branch of _extract_generated_text: the first record with the field.
RECURSIVE ExtractFromList(_)
ExtractFromList(items) ==
    IF items = <<>> THEN None
    ELSE LET item == Head(items)
         IN  IF item.isdict /\ HasField(item.fields, "generated_text")
             THEN LET text == item.fields.generated_text
                  IN  IF Contains(text, ASSISTANT_MARKER)
                      THEN Strip(AfterLast(text, ASSISTANT_MARKER))
                      ELSE text
             ELSE ExtractFromList(Tail(items))

\* HuggingFaceClient._extract_generated_text
_extract_generated_text(response_data) ==
    IF response_data.kind = "list" THEN ExtractFromList(response_data.items)
    ELSE IF response_data.kind = "dict"
         THEN IF HasField(response_data.fields, "generated_text")
              THEN response_data.fields.generated_text
              ELSE IF HasField(response_data.fields, "text")
                   THEN response_data.fields.text
                   ELSE None
         ELSE None

\* HuggingFaceClient._clean_response
_clean_response(text) ==
    IF ~Truthy(text) THEN text
    ELSE LET joined == Join(<<" ">>, SplitWs(text))
             cut == IF Len(joined) > CLEAN_LIMIT
                    THEN Take(joined, CLEAN_LIMIT) \o <<".", ".", ".">>
                    ELSE joined
             ended == IF cut # <<>> /\ cut[Len(cut)] \notin Terminals
                      THEN Append(cut, ".")
                      ELSE cut
         IN  Strip(ended)

\* ---- the cache: cachetools.TTLCache, entries [key, value, expires], oldest first
RECURSIVE SelectEntries(_, _, _)
SelectEntries(c, t, key) ==
    IF c = <<>> THEN <<>>
    ELSE IF Head(c).expires > t /\ Head(c).key # key
         THEN <<Head(c)>> \o SelectEntries(Tail(c), t, key)
         ELSE SelectEntries(Tail(c), t, key)

\* key in self.cache: an entry of that key whose time has not run out.
cache_contains(c, key, t) ==
    \E i \in 1..Len(c) : c[i].key = key /\ t < c[i].expires

\* self.cache[key]; None stands for the KeyError of a missing or stale entry.
cache_getitem(c, key, t) ==
    IF cache_contains(c, key, t)
    THEN (CHOOSE e \in {c[i] : i \in 1..Len(c)} : e.key = key /\ t < e.expires).value
    ELSE None

\* A cache write that forgets the time to live.
cache_setitem_no_ttl(c, key, value, t) ==
    Append(SelectEntries(c, t, key), [key |-> key, value |-> value, expires |-> t])

\* self.cache[key] = value: stale entries go, then the oldest one if the cache
\* is full and the key is new, and the entry is (re)inserted as the newest.
cache_setitem(c, key, value, t) ==
    LET live == SelectEntries(c, t, 0 - 1)
        isnew == \A i \in 1..Len(live) : live[i].key # key
        room == IF isnew /\ Len(live) >= CACHE_MAXSIZE THEN Tail(live) ELSE live
    IN  Append(SelectEntries(room, t, key),
               [key |-> key, value |-> value, expires |-> t + CACHE_TTL])

\* ---- the cache key: str(hash(str(conversation_history)))
HashSpace == 7       \* the values hash() takes in the model

Alphabet == <<" ", "\n", "\t", ".", "!", "?", ":", ")", "]", "}", "A", "B", "U",
              "a", "b", "c", "d", "e", "f", "g", "h", "i", "j", "k", "l", "m",
              "n", "o", "p", "q", "r", "s", "t", "u", "v", "w", "x", "y", "z">>

CharCode(c) == CHOOSE i \in 1..Len(Alphabet) : Alphabet[i] = c

RECURSIVE HashText(_, _)
HashText(text, acc) ==
    IF text = <<>> THEN acc
    ELSE HashText(Tail(text), (acc * 31 + CharCode(Head(text))) % HashSpace)

RECURSIVE HashHistory(_, _)
HashHistory(h, acc) ==
    IF h = <<>> THEN acc
    ELSE LET m == Head(h)
             a1 == (acc * 31 + (IF m.role = "user" THEN 1 ELSE 2)) % HashSpace
             a2 == HashText(m.content, a1)
             a3 == (a2 * 31 + m.timestamp) % HashSpace
         IN  HashHistory(Tail(h), a3)

cache_key(conversation_history) == HashHistory(conversation_history, 1)

\* ---- generate_response, step by step
MaxCalls == 2        \* generate_response calls in one behaviour
MaxElapse == 1       \* how often a long time passes between two steps
Delays == {CACHE_TTL - 1, CACHE_TTL}

GenIdle ==
    [pc |-> "idle", n |-> 0, conversation_history |-> <<>>, cache_key |-> 0,
     attempt |-> 0, wait_time |-> 0, result |-> None, raised |-> FALSE,
     net_calls |-> 0, waits |-> 0, slept |-> 0, started_at |-> 0, looked_at |-> 0,
     last |-> "none", cold_starts |-> 0, payload |-> NoBody, stored_at |-> 0 - 1]

\* What the endpoint can answer to one request.
P_marker == [kind |-> "list", items |->
                <<[isdict |-> TRUE, fields |-> [score |-> <<"x">>]],
                  [isdict |-> TRUE, fields |->
                      [generated_text |-> <<"A", ":", " ", "o", "k">>]]>>]
P_blank == [kind |-> "dict", fields |-> [generated_text |-> <<" ">>]]
P_empty == [kind |-> "list", items |-> <<>>]
Payloads == {P_marker, P_blank, P_empty}

Outcomes ==
    {[kind |-> "http", status |-> 200, body |-> b] : b \in Payloads}
    \cup {[kind |-> "http", status |-> st, body |-> NoBody] : st \in {503, 429, 500}}
    \cup {[kind |-> k, status |-> 0, body |-> NoBody] : k \in {"timeout", "fault"}}

\* The name under which an outcome is recorded.
OutcomeTag(o) ==
    IF o.kind # "http" THEN o.kind
    ELSE IF o.status = 200
         THEN (IF Truthy(_extract_generated_text(o.body)) THEN "200" ELSE "200-unusable")
         ELSE IF o.status = 503 THEN "503"
         ELSE IF o.status = 429 THEN "429" ELSE "other"

\* A retry loop that does not count its passes.
next_attempt_uncounted(g) == [g EXCEPT !.pc = "attempt"]

\* The end of one pass of the retry loop that did not return: the next attempt,
\* or the return None after the loop.
next_attempt(g) ==
    IF g.attempt + 1 < MAX_RETRIES
    THEN [g EXCEPT !.pc = "attempt", !.attempt = @ + 1]
    ELSE [g EXCEPT !.pc = "done", !.result = None]

\* A loop that returns the value on whatever attempt it is.
return_at_once(g, value) == [g EXCEPT !.pc = "done", !.result = value]

\* `if attempt == config.MAX_RETRIES - 1: return value`, else the next pass.
return_if_last(g, value) ==
    IF g.attempt = MAX_RETRIES - 1
    THEN [g EXCEPT !.pc = "done", !.result = value]
    ELSE next_attempt(g)

\* A wait that does not grow with the attempt number.
backoff_flat(g, status) == IF status = 503 THEN BACKOFF_503 ELSE BACKOFF_429

\* The wait after a 503 or a 429.
backoff(g, status) ==
    IF status = 503 THEN (g.attempt + 1) * BACKOFF_503 ELSE BACKOFF_429

\* A retry loop that also stores the text it returns when the attempts ran out.
after_request_storing_failures(g0, o, t) ==
    LET g == [g0 EXCEPT !.net_calls = @ + 1,
                        !.last = OutcomeTag(o),
                        !.cold_starts = IF OutcomeTag(o) = "503" THEN @ + 1 ELSE @,
                        !.payload = o.body]
        stored(h) == IF h.pc = "done" /\ h.result # None
                     THEN [h EXCEPT !.stored_at = t] ELSE h
    IN  IF o.kind = "timeout" THEN stored(return_if_last(g, MSG_api_timeout))
        ELSE IF o.kind = "fault" THEN return_if_last(g, None)
        ELSE IF o.status = 200
             THEN LET generated_text == _extract_generated_text(o.body)
                  IN  IF Truthy(generated_text)
                      THEN [g EXCEPT !.pc = "done", !.stored_at = t,
                                     !.result = _clean_response(generated_text)]
                      ELSE stored(return_if_last(g, FALLBACK_REPLY))
             ELSE IF o.status \in {503, 429}
                  THEN [g EXCEPT !.pc = "sleep", !.wait_time = backoff(g, o.status)]
                  ELSE return_if_last(g, None)

\* One pass of the retry loop from the request on, with the endpoint answering o
\* at time t.
after_request(g0, o, t) ==
    LET g == [g0 EXCEPT !.net_calls = @ + 1,
                        !.last = OutcomeTag(o),
                        !.cold_starts = IF OutcomeTag(o) = "503" THEN @ + 1 ELSE @,
                        !.payload = o.body]
    IN  IF o.kind = "timeout" THEN return_if_last(g, MSG_api_timeout)
        ELSE IF o.kind = "fault" THEN return_if_last(g, None)
        ELSE IF o.status = 200
             THEN LET generated_text == _extract_generated_text(o.body)
                  IN  IF Truthy(generated_text)
                      THEN [g EXCEPT !.pc = "done", !.stored_at = t,
                                     !.result = _clean_response(generated_text)]
                      ELSE return_if_last(g, FALLBACK_REPLY)
             ELSE IF o.status \in {503, 429}
                  THEN [g EXCEPT !.pc = "sleep", !.wait_time = backoff(g, o.status)]
                  ELSE return_if_last(g, None)

\* generate_response is called: the cache key and the membership test.
gen_call(g, c, h, t) ==
    [GenIdle EXCEPT !.n = g.n + 1, !.conversation_history = h,
                    !.cache_key = cache_key(h), !.started_at = t,
                    !.pc = IF cache_contains(c, cache_key(h), t) THEN "hit" ELSE "attempt"]

\* return self.cache[cache_key]
gen_cache_read(g, c, t) ==
    LET v == cache_getitem(c, g.cache_key, t)
    IN  IF v = None
        THEN [g EXCEPT !.pc = "done", !.raised = TRUE, !.looked_at = t]
        ELSE [g EXCEPT !.pc = "done", !.result = v, !.looked_at = t]

GenCall(h) ==
    /\ gen.pc = "idle"
    /\ gen.n < MaxCalls
    /\ gen' = gen_call(gen, cache, h, now)
    /\ UNCHANGED <<storeVars, cache, prev, elapsed, serviceVars, threads, objs, call>>

GenCacheRead ==
    /\ gen.pc = "hit"
    /\ gen' = gen_cache_read(gen, cache, now)
    /\ UNCHANGED <<storeVars, cache, prev, elapsed, serviceVars, threads, objs, call>>

GenAttempt(o) ==
    /\ gen.pc = "attempt"
    /\ IF ~Truthy(_build_prompt(gen.conversation_history))
       THEN /\ gen' = [gen EXCEPT !.pc = "done", !.result = GREETING_REPLY]
            /\ UNCHANGED cache
       ELSE /\ gen' = after_request(gen, o, now)
            /\ cache' = IF gen'.stored_at >= 0
                        THEN cache_setitem(cache, gen.cache_key, gen'.result, now)
                        ELSE cache
    /\ UNCHANGED <<storeVars, prev, elapsed, serviceVars, threads, objs, call>>

\* time.sleep(wait_time); continue
GenSleep ==
    /\ gen.pc = "sleep"
    /\ now' = now + gen.wait_time
    /\ gen' = next_attempt([gen EXCEPT !.waits = @ + 1, !.slept = @ + gen.wait_time,
                                       !.wait_time = 0])
    /\ UNCHANGED <<max_context_length, session_timeout, contexts, appended,
                   cache, prev, elapsed, serviceVars, threads, objs, call>>

\* The call is over; the caller has its outcome.
GenReturn ==
    /\ gen.pc = "done"
    /\ prev' = [conversation_history |-> gen.conversation_history,
                result |-> gen.result, net_calls |-> gen.net_calls,
                stored_at |-> gen.stored_at]
    /\ gen' = [GenIdle EXCEPT !.n = gen.n]
    /\ UNCHANGED <<storeVars, cache, elapsed, serviceVars, threads, objs, call>>

\* A long time passes between two calls, or between the cache test and the cache
\* read of one call.  (Within the retry loop time passes with the waits.)
Elapse(d) ==
    /\ elapsed < MaxElapse
    /\ gen.pc \in {"idle", "hit"}
    /\ elapsed' = elapsed + 1
    /\ now' = now + d
    /\ UNCHANGED <<max_context_length, session_timeout, contexts, appended,
                   cache, gen, prev, serviceVars, threads, objs, call>>

\* The histories generate_response is called with.
Histories ==
    {<<>>,
     <<[role |-> "user", content |-> <<"h", "i">>, timestamp |-> 0]>>}

\* -------------------------------------------------------------- AIService
BAD_WORDS == {<<"b", "a", "d">>}     \* config.BAD_WORDS
Uppercase == {"A", "B", "U"}     \* the upper-case letters of the alphabet

\* str.lower()
LowerChar(c) ==
    IF c = "A" THEN "a" ELSE IF c = "B" THEN "b" ELSE IF c = "U" THEN "u" ELSE c
Lower(text) == [i \in 1..Len(text) |-> LowerChar(text[i])]

\* s.count(p): the non-overlapping occurrences of a non-empty p, left to right.
RECURSIVE CountFrom(_, _, _)
CountFrom(s, p, i) ==
    IF i + Len(p) - 1 > Len(s) THEN 0
    ELSE IF OccursAt(s, p, i) THEN 1 + CountFrom(s, p, i + Len(p))
    ELSE CountFrom(s, p, i + 1)

Count(s, p) == CountFrom(s, p, 1)

\* The gate without its test of upper-case letters.
gate_without_caps(text) ==
    IF text = <<>> THEN FALSE
    ELSE LET text_lower == Lower(text)
             words == Take(SplitWs(text_lower), 10)
         IN  \/ \E bad_word \in BAD_WORDS : Contains(text_lower, bad_word)
             \/ \E k \in 1..Len(words) : Count(text_lower, words[k]) > 5

\* AIService.contains_inappropriate_content
contains_inappropriate_content(text) ==
    IF text = <<>> THEN FALSE
    ELSE LET text_lower == Lower(text)
             inappropriate_words ==
                 \E bad_word \in BAD_WORDS : Contains(text_lower, bad_word)
             too_many_caps ==
                 10 * Cardinality({i \in 1..Len(text) : text[i] \in Uppercase})
                     > 7 * Len(text)
             words == Take(SplitWs(text_lower), 10)
             too_many_repeats ==
                 \E k \in 1..Len(words) : Count(text_lower, words[k]) > 5
         IN  inappropriate_words \/ too_many_caps \/ too_many_repeats

MaxRequests == 2     \* process_message calls in one behaviour
Callers == {1}       \* the users who write to the bot

T_plain == <<"h", "i">>
T_denylisted == <<"s", "o", " ", "B", "a", "d">>
T_caps == <<"U", "A">>
T_repeats == <<"a", " ", "a", " ", "a", " ", "a", " ", "a", " ", "a">>
UserTexts == {T_plain, T_denylisted, T_caps, T_repeats}

SvcIdle ==
    [pc |-> "idle", user_id |-> 0, message |-> <<>>, ret |-> None,
     ai_response |-> None, raised |-> FALSE, gen_last |-> "none",
     history_before |-> <<>>, sent_at |-> 0, after_user |-> NoCtx]

\* ContextManager.get_conversation_history: the list it returns.
get_conversation_history(cs, user_id, t) == get_context(cs, user_id, t)[user_id].messages

\* A process_message that records the message before it asks the gate.
SvcCall_recording_first(u, m) ==
    /\ svc.pc = "idle"
    /\ gen.pc = "idle"
    /\ request_count < MaxRequests
    /\ request_count' = request_count + 1
    /\ contexts' = add_to_context(contexts, u, "user", m, now)
    /\ appended' = LogAfterAppend(contexts, appended, u, "user", m, now)
    /\ IF contains_inappropriate_content(m)
       THEN /\ error_count' = error_count + 1
            /\ svc' = [SvcIdle EXCEPT !.pc = "done", !.user_id = u, !.message = m,
                                      !.ret = MSG_content_warning]
            /\ UNCHANGED gen
       ELSE /\ gen' = gen_call(gen, cache, contexts'[u].messages, now)
            /\ svc' = [SvcIdle EXCEPT !.pc = "generate", !.user_id = u, !.message = m,
                           !.history_before = get_conversation_history(contexts, u, now),
                           !.sent_at = now, !.after_user = contexts'[u]]
            /\ UNCHANGED error_count
    /\ UNCHANGED <<max_context_length, session_timeout, now, cache, prev, elapsed,
                   threads, objs, call>>

\* process_message up to the call of generate_response: the request is counted,
\* the gate is asked, and a message that passes is recorded and the history read.
SvcCall(u, m) ==
    /\ svc.pc = "idle"
    /\ gen.pc = "idle"
    /\ request_count < MaxRequests
    /\ request_count' = request_count + 1
    /\ IF contains_inappropriate_content(m)
       THEN /\ error_count' = error_count + 1
            /\ svc' = [SvcIdle EXCEPT !.pc = "done", !.user_id = u, !.message = m,
                                      !.ret = MSG_content_warning]
            /\ UNCHANGED <<contexts, appended, gen>>
       ELSE /\ contexts' = add_to_context(contexts, u, "user", m, now)
            /\ appended' = LogAfterAppend(contexts, appended, u, "user", m, now)
            /\ gen' = gen_call(gen, cache, contexts'[u].messages, now)
            /\ svc' = [SvcIdle EXCEPT !.pc = "generate", !.user_id = u, !.message = m,
                           !.history_before = get_conversation_history(contexts, u, now),
                           !.sent_at = now, !.after_user = contexts'[u]]
            /\ UNCHANGED error_count
    /\ UNCHANGED <<max_context_length, session_timeout, now, cache, prev, elapsed,
                   threads, objs, call>>

\* process_message when the context store raises in add_user_message, before it
\* wrote anything: the except clause counts the error and answers with the
\* generic error text.
SvcStoreFault(u, m) ==
    /\ svc.pc = "idle"
    /\ gen.pc = "idle"
    /\ request_count < MaxRequests
    /\ ~contains_inappropriate_content(m)
    /\ request_count' = request_count + 1
    /\ error_count' = error_count + 1
    /\ svc' = [SvcIdle EXCEPT !.pc = "done", !.user_id = u, !.message = m,
                              !.raised = TRUE, !.ret = MSG_error]
    /\ UNCHANGED <<storeVars, clientVars, threads, objs, call>>

\* A process_message without its except clause: a fault in generate_response
\* leaves the caller without a return value.
SvcAfterGenerate_unguarded ==
    /\ svc.pc = "generate"
    /\ gen.pc = "done"
    /\ LET u == svc.user_id
           mine == [svc EXCEPT !.pc = "done", !.ai_response = gen.result,
                               !.raised = gen.raised, !.gen_last = gen.last]
       IN  IF gen.raised
           THEN /\ svc' = [mine EXCEPT !.ret = None]
                /\ UNCHANGED <<contexts, appended, error_count>>
           ELSE IF Truthy(gen.result)
           THEN /\ contexts' = add_to_context(contexts, u, "assistant", gen.result, now)
                /\ appended' = LogAfterAppend(contexts, appended, u, "assistant",
                                              gen.result, now)
                /\ svc' = [mine EXCEPT !.ret = gen.result]
                /\ UNCHANGED error_count
           ELSE /\ error_count' = error_count + 1
                /\ svc' = [mine EXCEPT !.ret = MSG_error]
                /\ UNCHANGED <<contexts, appended>>
    /\ gen' = [GenIdle EXCEPT !.n = gen.n]
    /\ UNCHANGED <<max_context_length, session_timeout, now, cache, prev, elapsed,
                   request_count, threads, objs, call>>

\* process_message from the return of generate_response on.
SvcAfterGenerate ==
    /\ svc.pc = "generate"
    /\ gen.pc = "done"
    /\ LET u == svc.user_id
           mine == [svc EXCEPT !.pc = "done", !.ai_response = gen.result,
                               !.raised = gen.raised, !.gen_last = gen.last]
       IN  IF gen.raised
           THEN /\ error_count' = error_count + 1
                /\ svc' = [mine EXCEPT !.ret = MSG_error]
                /\ UNCHANGED <<contexts, appended>>
           ELSE IF Truthy(gen.result)
           THEN /\ contexts' = add_to_context(contexts, u, "assistant", gen.result, now)
                /\ appended' = LogAfterAppend(contexts, appended, u, "assistant",
                                              gen.result, now)
                /\ svc' = [mine EXCEPT !.ret = gen.result]
                /\ UNCHANGED error_count
           ELSE /\ error_count' = error_count + 1
                /\ svc' = [mine EXCEPT !.ret = MSG_error]
                /\ UNCHANGED <<contexts, appended>>
    /\ gen' = [GenIdle EXCEPT !.n = gen.n]
    /\ UNCHANGED <<max_context_length, session_timeout, now, cache, prev, elapsed,
                   request_count, threads, objs, call>>

\* The caller has the reply.
SvcReturn ==
    /\ svc.pc = "done"
    /\ svc' = SvcIdle
    /\ UNCHANGED <<storeVars, clientVars, request_count, error_count, threads, objs, call>>

\* ------------------------------------------- the store under two threads
\* process_message runs on the threads of the default executor (bot.py,
\* run_in_executor), and the webhook server handles its requests concurrently,
\* so two store calls can be under way at once.  The store takes no lock: a
\* thread can be suspended between any two statements.  Here each thread makes
\* one add_user_message call for the same user.
Threads == {1, 2}
TheUser == 1
ThreadText(t) == IF t = 1 THEN <<"h", "i">> ELSE <<"y", "o">>

\* A thread's reference to a context object: none, the object the mapping holds
\* at present, or (the record of) an object the mapping held when the thread
\* fetched it and that another thread has replaced since.  With two threads an
\* object that left the mapping is referred to by one thread at most.
NoRef == [none |-> TRUE]
Held == [held |-> TRUE]

ThreadIdle ==
    [pc |-> "idle", user_id |-> 0, content |-> <<>>, context |-> NoRef, sliced |-> <<>>]

\* The object a thread's reference stands for.
Deref(t) == IF threads[t].context = Held THEN contexts[threads[t].user_id]
            ELSE threads[t].context

\* Thread t writes obj through its reference and moves to position pc.
Store(t, obj, pc) ==
    IF threads[t].context = Held
    THEN /\ contexts' = [contexts EXCEPT ![threads[t].user_id] = obj]
         /\ threads' = [threads EXCEPT ![t].pc = pc]
    ELSE /\ threads' = [threads EXCEPT ![t].pc = pc, ![t].context = obj]
         /\ UNCHANGED contexts

\* add_user_message is called.
ThreadCall(t) ==
    /\ threads[t].pc = "idle"
    /\ threads' = [threads EXCEPT ![t].pc = "test", ![t].user_id = TheUser,
                                  ![t].content = ThreadText(t)]
    /\ UNCHANGED <<storeVars, clientVars, serviceVars, objs, call>>

\* get_context: `if user_id not in self.contexts or ...is_expired():`
ThreadTest(t) ==
    /\ threads[t].pc = "test"
    /\ threads' = [threads EXCEPT ![t].pc =
                      IF NeedsNew(contexts, threads[t].user_id, now)
                      THEN "create" ELSE "fetch"]
    /\ UNCHANGED <<storeVars, clientVars, serviceVars, objs, call>>

\* get_context: `self.contexts[user_id] = DialogContext(...)`.  A thread that
\* holds the object replaced keeps it.
ThreadCreate(t) ==
    /\ threads[t].pc = "create"
    /\ LET u == threads[t].user_id
       IN  /\ contexts' = [contexts EXCEPT ![u] =
                              DialogContext(u, max_context_length, session_timeout, now)]
           /\ threads' = [o \in Threads |->
                  IF o = t THEN [threads[o] EXCEPT !.pc = "fetch"]
                  ELSE IF threads[o].context = Held /\ threads[o].user_id = u
                       THEN [threads[o] EXCEPT !.context = contexts[u]]
                       ELSE threads[o]]
    /\ UNCHANGED <<max_context_length, session_timeout, now, appended,
                   clientVars, serviceVars, objs, call>>

\* get_context: `return self.contexts[user_id]`
ThreadFetch(t) ==
    /\ threads[t].pc = "fetch"
    /\ threads' = IF contexts[threads[t].user_id] = NoCtx
                  THEN [threads EXCEPT ![t].pc = "raised"]      \* KeyError
                  ELSE [threads EXCEPT ![t].pc = "stamp", ![t].context = Held]
    /\ UNCHANGED <<storeVars, clientVars, serviceVars, objs, call>>

\* add_message: `self.updated_at = datetime.now()`
ThreadStamp(t) ==
    /\ threads[t].pc = "stamp"
    /\ Store(t, [Deref(t) EXCEPT !.updated_at = now], "append")
    /\ UNCHANGED <<max_context_length, session_timeout, now, appended,
                   clientVars, serviceVars, objs, call>>

\* add_message: `self.messages.append(message)`
ThreadAppend(t) ==
    /\ threads[t].pc = "append"
    /\ LET message == [role |-> "user", content |-> threads[t].content,
                       timestamp |-> now]
       IN  Store(t, [Deref(t) EXCEPT !.messages = Append(@, message)], "cap")
    /\ UNCHANGED <<max_context_length, session_timeout, now, appended,
                   clientVars, serviceVars, objs, call>>

\* add_message: `if len(self.messages) > self.max_length:` and the right-hand
\* side of the assignment, the slice of the list as it is now.
ThreadCap(t) ==
    /\ threads[t].pc = "cap"
    /\ LET ctx == Deref(t)
       IN  threads' = IF Len(ctx.messages) > ctx.max_length
                      THEN [threads EXCEPT ![t].pc = "assign",
                               ![t].sliced = PySliceFrom(ctx.messages, 0 - ctx.max_length)]
                      ELSE [threads EXCEPT ![t].pc = "done"]
    /\ UNCHANGED <<storeVars, clientVars, serviceVars, objs, call>>

\* add_message: `self.messages = ...`, the assignment of the slice.
ThreadAssign(t) ==
    /\ threads[t].pc = "assign"
    /\ Store(t, [Deref(t) EXCEPT !.messages = threads[t].sliced], "done")
    /\ UNCHANGED <<max_context_length, session_timeout, now, appended,
                   clientVars, serviceVars, objs, call>>

\* ------------------------------------- the history as Python objects
\* One DialogContext's messages with the identity of the objects: the message
\* dicts live in a heap (object k is heap[k]), the context's list and a list
\* handed to a caller hold references to them.
MaxObjects == 3      \* message dicts created in one behaviour
EDITED == <<"n", "o">>      \* a text a caller writes into a message

NoObjs ==
    [heap |-> <<>>,          \* the message dicts
     messages |-> <<>>,      \* DialogContext.messages: references
     handed |-> FALSE,       \* get_conversation_history has returned
     history |-> <<>>,       \* the list it returned, as the caller holds it
     stored |-> <<>>,        \* history: the messages the store appended, capped
     seen |-> <<>>]          \* history: the returned value with the caller's changes

\* The dicts a list of references stands for.
Values(o, refs) == [i \in 1..Len(refs) |-> o.heap[refs[i]]]

\* DialogContext.add_message
ObjAppend(c) ==
    /\ Len(objs.heap) < MaxObjects
    /\ LET message == [role |-> "user", content |-> c, timestamp |-> now]
           ref == Len(objs.heap) + 1
       IN  objs' = [objs EXCEPT
                       !.heap = Append(@, message),
                       !.messages = Truncate(Append(@, ref), max_context_length),
                       !.stored = Truncate(Append(@, message), max_context_length)]
    /\ UNCHANGED <<storeVars, clientVars, serviceVars, threads, call>>

\* get_conversation_history: `return self.messages.copy()`, a new list of the
\* same dicts.
ObjHistory ==
    /\ objs' = [objs EXCEPT !.handed = TRUE, !.history = objs.messages,
                            !.seen = Values(objs, objs.messages)]
    /\ UNCHANGED <<storeVars, clientVars, serviceVars, threads, call>>

\* The caller appends an entry of its own to the list it was handed.
CallerAppends ==
    /\ objs.handed
    /\ Len(objs.heap) < MaxObjects
    /\ LET entry == [role |-> "user", content |-> EDITED, timestamp |-> now]
       IN  objs' = [objs EXCEPT !.heap = Append(@, entry),
                                !.history = Append(@, Len(objs.heap) + 1),
                                !.seen = Append(@, entry)]
    /\ UNCHANGED <<storeVars, clientVars, serviceVars, threads, call>>

\* The caller removes the first entry of the list it was handed.
CallerRemoves ==
    /\ objs.handed
    /\ objs.history # <<>>
    /\ objs' = [objs EXCEPT !.history = Tail(@), !.seen = Tail(@)]
    /\ UNCHANGED <<storeVars, clientVars, serviceVars, threads, call>>

\* The caller changes the content of entry i of the list it was handed.
CallerEdits(i) ==
    /\ objs.handed
    /\ i \in 1..Len(objs.history)
    /\ objs.heap[objs.history[i]].content # EDITED
    /\ objs' = [objs EXCEPT !.heap[objs.history[i]].content = EDITED,
                            !.seen[i].content = EDITED]
    /\ UNCHANGED <<storeVars, clientVars, serviceVars, threads, call>>

Init ==
    /\ max_context_length \in 0..MaxLen
    /\ session_timeout \in 0..MaxTimeout
    /\ contexts = [u \in Users |-> NoCtx]
    /\ now = 0
    /\ appended = [u \in Users |-> <<>>]
    /\ cache = <<>>
    /\ gen = GenIdle
    /\ prev = NoCall
    /\ elapsed = 0
    /\ request_count = 0
    /\ error_count = 0
    /\ svc = SvcIdle
    /\ threads = [t \in Threads |-> ThreadIdle]
    /\ objs = NoObjs
    /\ call = Uncalled

Next ==
    \/ \E u \in Users : GetContext(u)
    \/ \E u \in Users, c \in Contents : AddUserMessage(u, c)
    \/ \E u \in Users, c \in Contents : AddBotMessage(u, c)
    \/ \E u \in Users : GetConversationHistory(u)
    \/ \E u \in Users : ClearUserContext(u)
    \/ CleanupExpiredContexts
    \/ Tick

Spec == Init /\ [][Next]_vars

\* ------------------------------------------------ helpers called on their own
\* What one probe of the endpoint can meet with.
ProbeOutcomes ==
    {[kind |-> "http", status |-> st] : st \in {200, 503, 422, 429, 500, 404, 401}}
    \cup {[kind |-> k, status |-> 0] : k \in {"timeout", "fault"}}

\* A probe that takes only a 200 for a reachable endpoint.
test_connection_strict(o) == o.kind = "http" /\ o.status = 200

\* HuggingFaceClient.test_connection, the one request answered by o: the status
\* test when there is a response, False from the except clause otherwise.
test_connection(o) ==
    IF o.kind = "http" THEN o.status \in {200, 503, 422} ELSE FALSE

TestConnection(o) ==
    /\ call = Uncalled
    /\ call' = [fn |-> "test_connection", arg |-> o, ret |-> test_connection(o),
                requests |-> 1]
    /\ UNCHANGED <<storeVars, clientVars, serviceVars, threads, objs>>

\* The histories _build_prompt is called with: up to MaxHistory entries as the
\* store keeps them, the user's and the assistant's.
MaxHistory == 7
HistoryEntries ==
    {[role |-> "user", content |-> <<"h", "i">>, timestamp |-> 0],
     [role |-> "user", content |-> <<"y", "o">>, timestamp |-> 0],
     [role |-> "assistant", content |-> <<"o", "k", ".">>, timestamp |-> 0]}
LongHistories == UNION {[1..n -> HistoryEntries] : n \in 0..MaxHistory}

BuildPrompt(h) ==
    /\ call = Uncalled
    /\ call' = [fn |-> "_build_prompt", arg |-> h, ret |-> _build_prompt(h)]
    /\ UNCHANGED <<storeVars, clientVars, serviceVars, threads, objs>>

\* The list payloads _extract_generated_text is called with: up to MaxItems
\* items, each a record with the field (its text with the marker in several
\* places, or without it), a record without the field, or not a record.
MaxItems == 2
GeneratedTexts ==
    {<<"o", "k">>,
     <<"A", ":", " ", "o", "k">>,
     <<"A", ":", "h", "i", " ", "A", ":", " ", "o", "k", " ">>,
     <<"U", ":", "h", "i", "\n", "A", ":">>,
     <<>>}
PayloadItems ==
    {[isdict |-> TRUE, fields |-> [generated_text |-> t]] : t \in GeneratedTexts}
    \cup {[isdict |-> TRUE, fields |-> [score |-> <<"x">>]],
          [isdict |-> FALSE, fields |-> [none |-> TRUE]]}
ListPayloads ==
    {[kind |-> "list", items |-> its] :
        its \in UNION {[1..n -> PayloadItems] : n \in 0..MaxItems}}

ExtractGeneratedText(p) ==
    /\ call = Uncalled
    /\ call' = [fn |-> "_extract_generated_text", arg |-> p,
                ret |-> _extract_generated_text(p)]
    /\ UNCHANGED <<storeVars, clientVars, serviceVars, threads, objs>>

\* The texts the text helpers are called with: every text of up to MaxText
\* characters over a letter, a full stop and two kinds of whitespace.
MaxText == 4
TextChars == {"a", ".", " ", "\n"}
Texts == UNION {[1..n -> TextChars] : n \in 0..MaxText}

CleanResponse(x) ==
    /\ call = Uncalled
    /\ call' = [fn |-> "_clean_response", arg |-> x, ret |-> _clean_response(x)]
    /\ UNCHANGED <<storeVars, clientVars, serviceVars, threads, objs>>

\* ---- InputValidator (filters.py)
SANITIZE_LIMIT == 1000     \* the longest text sanitize_text leaves uncut
ELLIPSIS == <<".", ".", ".">>

\* re.sub(r'\s+', ' ', text): every maximal run of whitespace becomes one space.
\* Computed by halves: the runs of each half are replaced, and two spaces that
\* meet where the halves join are one run.
RECURSIVE CollapseWs(_)
CollapseWs(s) ==
    IF Len(s) = 0 THEN <<>>
    ELSE IF Len(s) = 1 THEN (IF s[1] \in Whitespace THEN <<" ">> ELSE s)
    ELSE LET half == Len(s) \div 2
             left == CollapseWs(SubSeq(s, 1, half))
             right == CollapseWs(SubSeq(s, half + 1, Len(s)))
         IN  IF left[Len(left)] = " " /\ right[1] = " "
             THEN left \o Tail(right)
             ELSE left \o right

\* A sanitize_text that cuts before it replaces the runs of whitespace.
sanitize_text_cut_first(text) ==
    LET stripped == Strip(text)
        cut == IF Len(stripped) > SANITIZE_LIMIT
               THEN Take(stripped, SANITIZE_LIMIT) \o ELLIPSIS
               ELSE stripped
    IN  CollapseWs(cut)

\* InputValidator.sanitize_text
sanitize_text(text) ==
    LET stripped == Strip(text)
        collapsed == CollapseWs(stripped)
    IN  IF Len(collapsed) > SANITIZE_LIMIT
        THEN Take(collapsed, SANITIZE_LIMIT) \o ELLIPSIS
        ELSE collapsed

\* Texts around the limit: a short text before or after a long run of letters.
Padding(n) == [i \in 1..n |-> "a"]
LongTexts ==
    {Padding(SANITIZE_LIMIT - 2) \o x : x \in Texts}
    \cup {x \o Padding(SANITIZE_LIMIT - 2) : x \in Texts}

\* sanitize_text is applied to x, and then to its own result.
SanitizeText(x) ==
    /\ call = Uncalled
    /\ call' = [fn |-> "sanitize_text", arg |-> x, ret |-> sanitize_text(x),
                again |-> sanitize_text(sanitize_text(x))]
    /\ UNCHANGED <<storeVars, clientVars, serviceVars, threads, objs>>

\* The caller has the result.
HelperReturn ==
    /\ call # Uncalled
    /\ call' = Uncalled
    /\ UNCHANGED <<storeVars, clientVars, serviceVars, threads, objs>>

HelperInit ==
    /\ max_context_length = MaxLen
    /\ session_timeout = MaxTimeout
    /\ contexts = [u \in Users |-> NoCtx]
    /\ now = 0
    /\ appended = [u \in Users |-> <<>>]
    /\ cache = <<>>
    /\ gen = GenIdle
    /\ prev = NoCall
    /\ elapsed = 0
    /\ request_count = 0
    /\ error_count = 0
    /\ svc = SvcIdle
    /\ threads = [t \in Threads |-> ThreadIdle]
    /\ objs = NoObjs
    /\ call = Uncalled

HelperNext ==
    \/ \E o \in ProbeOutcomes : TestConnection(o)
    \/ \E h \in LongHistories : BuildPrompt(h)
    \/ \E p \in ListPayloads : ExtractGeneratedText(p)
    \/ \E x \in Texts : CleanResponse(x)
    \/ \E x \in Texts \cup LongTexts : SanitizeText(x)
    \/ HelperReturn

HelperSpec == HelperInit /\ [][HelperNext]_vars

\* ------------------------------------------- CodeQueenBot.handle_message
MESSAGE_LIMIT == 1000      \* the longest text is_valid_message accepts
REPEAT_RUN == 11           \* (.)\1{10,}: so many equal characters in a row

\* The verdicts of is_valid_message, and the word handle_message looks for.
V_OK == <<"O", "K">>
V_EMPTY == <<"e", "m", "p", "t", "y">>
V_TOO_LONG == <<"t", "o", "o", " ", "l", "o", "n", "g">>
V_REPEATS == <<"t", "o", "o", " ", "m", "a", "n", "y", " ", "r", "e", "p", "e", "a", "t", "s">>
LONG_WORD == <<"l", "o", "n", "g">>                  \* 'длинное'

MSG_message_too_long == <<"l", "o", "n", "g", ".">>    \* config.MESSAGES['message_too_long']
MSG_empty_message == <<"e", "m", "p", "t", "y", ".">>  \* config.MESSAGES['empty_message']

\* re.search(r'(.)\1{10,}', text): the dot matches no newline.
HasRun(text, n) ==
    \E i \in 1..(Len(text) - n + 1) :
        /\ text[i] # "\n"
        /\ \A j \in i..(i + n - 1) : text[j] = text[i]

\* not text.strip(): nothing is left of a text of whitespace only.
Blank(text) == \A i \in 1..Len(text) : text[i] \in Whitespace

\* A validator that tests the length before anything else.
is_valid_message_length_first(text) ==
    IF Len(text) > MESSAGE_LIMIT THEN [ok |-> FALSE, msg |-> V_TOO_LONG]
    ELSE IF text = <<>> \/ Blank(text) THEN [ok |-> FALSE, msg |-> V_EMPTY]
    ELSE IF HasRun(text, REPEAT_RUN) THEN [ok |-> FALSE, msg |-> V_REPEATS]
    ELSE [ok |-> TRUE, msg |-> V_OK]

\* InputValidator.is_valid_message
is_valid_message(text) ==
    IF text = <<>> \/ Blank(text) THEN [ok |-> FALSE, msg |-> V_EMPTY]
    ELSE IF Len(text) > MESSAGE_LIMIT THEN [ok |-> FALSE, msg |-> V_TOO_LONG]
    ELSE IF HasRun(text, REPEAT_RUN) THEN [ok |-> FALSE, msg |-> V_REPEATS]
    ELSE [ok |-> TRUE, msg |-> V_OK]

\* ContentFilter: the words of a text (maximal runs of letters and digits), and
\* the two patterns, each of which matches a whole word: letters around two or
\* more x, and letters around a block of two or more digits.
Digits == {"0", "1", "2"}
Letters == {Alphabet[i] : i \in 11..Len(Alphabet)}

RECURSIVE WordsFrom(_, _, _)
WordsFrom(s, cur, out) ==
    IF s = <<>> THEN (IF cur = <<>> THEN out ELSE Append(out, cur))
    ELSE IF Head(s) \in Letters \cup Digits
         THEN WordsFrom(Tail(s), Append(cur, Head(s)), out)
         ELSE WordsFrom(Tail(s), <<>>, IF cur = <<>> THEN out ELSE Append(out, cur))

MaskedWord(w) ==
    /\ \A i \in 1..Len(w) : w[i] \in Letters
    /\ Contains(Lower(w), <<"x", "x">>)

DigitWord(w) ==
    LET at == {i \in 1..Len(w) : w[i] \in Digits}
    IN  /\ Cardinality(at) >= 2
        /\ \A i \in at, j \in at : \A k \in i..j : k \in at

\* ContentFilter.contains_bad_words
contains_bad_words(text) ==
    IF text = <<>> THEN FALSE
    ELSE \/ \E bad_word \in BAD_WORDS : Contains(Lower(text), bad_word)
         \/ LET words == WordsFrom(text, <<>>, <<>>)
            IN  \E k \in 1..Len(words) : MaskedWord(words[k]) \/ DigitWord(words[k])

\* The texts a user sends: plain ones, ones to sanitize, blank ones, ones past
\* the limit, ones with a long run, and ones the filter or the gate refuses.
T_padded == <<" ", "h", "i", " ", "\n">>
T_blank == <<" ", "\n">>
T_masked == <<"a", "x", "x">>
T_digits == <<"a", "1", "2">>
T_run == Padding(REPEAT_RUN)
T_too_long == Padding(MESSAGE_LIMIT + 1)
T_long_blank == [i \in 1..(MESSAGE_LIMIT + 1) |-> " "]
SentTexts ==
    {T_plain, T_padded, T_blank, T_masked, T_digits, T_denylisted, T_caps,
     T_run, T_too_long, T_long_blank}

\* No message has been handled yet: a behaviour follows one message.
Unhandled == call = Uncalled /\ request_count = 0

\* handle_message up to the reply or to the call of process_message: validate,
\* then sanitize, then the filter, then (through the executor) process_message
\* with the sanitized text.
HandleMessage(u, message_text) ==
    LET v == is_valid_message(message_text)
        clean_text == sanitize_text(message_text)
    IN  IF ~v.ok
        THEN /\ svc.pc = "idle"
             /\ Unhandled
             /\ call' = [fn |-> "handle_message",
                         reply |-> IF Contains(v.msg, LONG_WORD)
                                   THEN MSG_message_too_long
                                   ELSE MSG_empty_message]
             /\ UNCHANGED <<storeVars, clientVars, serviceVars, threads, objs>>
        ELSE IF contains_bad_words(clean_text)
        THEN /\ svc.pc = "idle"
             /\ Unhandled
             /\ call' = [fn |-> "handle_message", reply |-> MSG_content_warning]
             /\ UNCHANGED <<storeVars, clientVars, serviceVars, threads, objs>>
        ELSE Unhandled /\ SvcCall(u, clean_text)

\* ------------------------------------------ the cache under two threads
\* generate_response runs on the executor's threads (bot.py, run_in_executor)
\* on the one client of the one AIService, and takes no lock around the cache.
\* TTLCache.__setitem__ first drops the stale entries and, while the cache is
\* full and the key is new, the oldest one; only then does it insert.  A thread
\* can be suspended between the two.
WrittenKeys == {1, CACHE_MAXSIZE + 1, CACHE_MAXSIZE + 2}

\* A cache holding n live entries, as n calls with n histories leave it.
FilledCache(n) ==
    [i \in 1..n |-> [key |-> i, value |-> <<"o", "k", ".">>, expires |-> CACHE_TTL]]

WriterIdle == [pc |-> "idle", key |-> 0, value |-> <<>>]

\* The first half of self.cache[key] = value: expire, and evict while full.
cache_make_room(c, key, t) ==
    LET Fresh(e) == e.expires > t
        live == SelectSeq(c, Fresh)
        isnew == \A i \in 1..Len(live) : live[i].key # key
    IN  IF isnew /\ Len(live) >= CACHE_MAXSIZE
        THEN SubSeq(live, Len(live) - CACHE_MAXSIZE + 2, Len(live))
        ELSE live

\* The second half: the entry is (re)inserted as the newest.
cache_insert(c, key, value, t) ==
    LET Other(e) == e.key # key
    IN  Append(SelectSeq(c, Other),
               [key |-> key, value |-> value, expires |-> t + CACHE_TTL])

\* Thread t reaches line 90 with a reply for a key, and makes room for it.
WriterMakesRoom(t, key) ==
    /\ threads[t].pc = "idle"
    /\ cache' = cache_make_room(cache, key, now)
    /\ threads' = [threads EXCEPT ![t] = [pc |-> "insert", key |-> key,
                                          value |-> ThreadText(t)]]
    /\ UNCHANGED <<storeVars, gen, prev, elapsed, serviceVars, objs, call>>

\* Thread t inserts its entry.
WriterInserts(t) ==
    /\ threads[t].pc = "insert"
    /\ cache' = cache_insert(cache, threads[t].key, threads[t].value, now)
    /\ threads' = [threads EXCEPT ![t] = WriterIdle]
    /\ UNCHANGED <<storeVars, gen, prev, elapsed, serviceVars, objs, call>>

CacheRaceInit ==
    /\ max_context_length = MaxLen
    /\ session_timeout = MaxTimeout
    /\ contexts = [u \in Users |-> NoCtx]
    /\ now = 0
    /\ appended = [u \in Users |-> <<>>]
    /\ cache \in {FilledCache(n) : n \in {0, CACHE_MAXSIZE - 1, CACHE_MAXSIZE}}
    /\ gen = GenIdle
    /\ prev = NoCall
    /\ elapsed = 0
    /\ request_count = 0
    /\ error_count = 0
    /\ svc = SvcIdle
    /\ threads = [t \in Threads |-> WriterIdle]
    /\ objs = NoObjs
    /\ call = Uncalled

CacheRaceNext ==
    \/ \E t \in Threads, key \in WrittenKeys : WriterMakesRoom(t, key)
    \/ \E t \in Threads : WriterInserts(t)

CacheRaceSpec == CacheRaceInit /\ [][CacheRaceNext]_vars

\* The store with the largest cap: the operations on timestamps, expiry, reset
\* and sweep, none of which reads the cap.
LifecycleInit == Init /\ max_context_length = MaxLen

LifecycleSpec == LifecycleInit /\ [][Next]_vars

\* The store as the bot drives it: the operations its handlers call (start,
\* stats, reset and the message handler), at any time and for any user, while
\* time passes.  Nothing in the program calls cleanup_expired_contexts.  Time
\* passes whatever the users do; no user has to send anything.
BotNext ==
    \/ \E u \in Users : GetContext(u)
    \/ \E u \in Users, c \in Contents : AddUserMessage(u, c)
    \/ \E u \in Users, c \in Contents : AddBotMessage(u, c)
    \/ \E u \in Users : GetConversationHistory(u)
    \/ \E u \in Users : ClearUserContext(u)
    \/ Tick

BotSpec == Init /\ [][BotNext]_vars /\ WF_vars(Tick)

\* The inference client alone: calls of generate_response, one after another.
ClientInit ==
    /\ max_context_length = MaxLen
    /\ session_timeout = 0
    /\ contexts = [u \in Users |-> NoCtx]
    /\ now = 0
    /\ appended = [u \in Users |-> <<>>]
    /\ cache = <<>>
    /\ gen = GenIdle
    /\ prev = NoCall
    /\ elapsed = 0
    /\ request_count = 0
    /\ error_count = 0
    /\ svc = SvcIdle
    /\ threads = [t \in Threads |-> ThreadIdle]
    /\ objs = NoObjs
    /\ call = Uncalled

ClientNext ==
    \/ \E h \in Histories : GenCall(h)
    \/ GenCacheRead
    \/ \E o \in Outcomes : GenAttempt(o)
    \/ GenSleep
    \/ GenReturn
    \/ \E d \in Delays : Elapse(d)

ClientSpec == ClientInit /\ [][ClientNext]_vars

\* The client when its calls follow one another without a long pause: the retry
\* loop and the cache write, which do not depend on how old an entry is.
RetryNext ==
    \/ \E h \in Histories : GenCall(h)
    \/ GenCacheRead
    \/ \E o \in Outcomes : GenAttempt(o)
    \/ GenSleep
    \/ GenReturn

RetrySpec == ClientInit /\ [][RetryNext]_vars

\* The orchestrator: process_message calls, one after another, on a store with
\* any cap and with a short or the default session timeout.
SESSION_TIMEOUT == 3600      \* the default of session_timeout

ServiceInit ==
    /\ max_context_length \in 0..MaxLen
    /\ session_timeout \in {MaxTimeout, SESSION_TIMEOUT}
    /\ contexts = [u \in Users |-> NoCtx]
    /\ now = 0
    /\ appended = [u \in Users |-> <<>>]
    /\ cache = <<>>
    /\ gen = GenIdle
    /\ prev = NoCall
    /\ elapsed = 0
    /\ request_count = 0
    /\ error_count = 0
    /\ svc = SvcIdle
    /\ threads = [t \in Threads |-> ThreadIdle]
    /\ objs = NoObjs
    /\ call = Uncalled

ServiceNext ==
    \/ \E u \in Callers, m \in UserTexts : SvcCall(u, m)
    \/ \E u \in Callers, m \in UserTexts : SvcStoreFault(u, m)
    \/ GenCacheRead
    \/ \E o \in Outcomes : GenAttempt(o)
    \/ GenSleep
    \/ SvcAfterGenerate
    \/ SvcReturn
    \/ \E d \in Delays : Elapse(d)

ServiceSpec == ServiceInit /\ [][ServiceNext]_vars

\* The store before the message: empty, or holding an exchange with the user.
NoTalk == [u \in Users |-> NoCtx]
Exchange == <<[role |-> "user", content |-> T_plain],
              [role |-> "assistant", content |-> <<"o", "k", ".">>]>>
StoreAfterOne == add_to_context(NoTalk, 1, Exchange[1].role, Exchange[1].content, 0)
StoreAfter(k) ==
    IF k = 0 THEN NoTalk
    ELSE IF k = 1 THEN StoreAfterOne
    ELSE add_to_context(StoreAfterOne, 1, Exchange[2].role, Exchange[2].content, 0)
LogAfter(k) ==
    [u \in Users |-> IF u = 1 /\ StoreAfter(k)[1] # NoCtx
                     THEN StoreAfter(k)[1].messages ELSE <<>>]

\* The bot answering one text message, its cache still empty.
HandlerInit ==
    /\ max_context_length = MaxLen
    /\ session_timeout = SESSION_TIMEOUT
    /\ \E k \in 0..2 : contexts = StoreAfter(k) /\ appended = LogAfter(k)
    /\ now = 0
    /\ cache = <<>>
    /\ gen = GenIdle
    /\ prev = NoCall
    /\ elapsed = 0
    /\ request_count = 0
    /\ error_count = 0
    /\ svc = SvcIdle
    /\ threads = [t \in Threads |-> ThreadIdle]
    /\ objs = NoObjs
    /\ call = Uncalled

HandlerNext ==
    \/ \E u \in Callers, x \in SentTexts : HandleMessage(u, x)
    \/ \E o \in Outcomes : GenAttempt(o)
    \/ GenSleep
    \/ SvcAfterGenerate
    \/ SvcReturn

HandlerSpec == HandlerInit /\ [][HandlerNext]_vars

\* Two executor threads on one store, with any cap and the default timeout.
ConcurrentInit ==
    /\ max_context_length \in 0..MaxLen
    /\ session_timeout = SESSION_TIMEOUT
    /\ contexts = [u \in Users |-> NoCtx]
    /\ now = 0
    /\ appended = [u \in Users |-> <<>>]
    /\ cache = <<>>
    /\ gen = GenIdle
    /\ prev = NoCall
    /\ elapsed = 0
    /\ request_count = 0
    /\ error_count = 0
    /\ svc = SvcIdle
    /\ threads = [t \in Threads |-> ThreadIdle]
    /\ objs = NoObjs
    /\ call = Uncalled

ConcurrentNext ==
    \E t \in Threads :
        \/ ThreadCall(t)
        \/ ThreadTest(t)
        \/ ThreadCreate(t)
        \/ ThreadFetch(t)
        \/ ThreadStamp(t)
        \/ ThreadAppend(t)
        \/ ThreadCap(t)
        \/ ThreadAssign(t)

ConcurrentSpec == ConcurrentInit /\ [][ConcurrentNext]_vars

\* One context and a caller of get_conversation_history, with any cap.
HistoryInit ==
    /\ max_context_length \in 0..MaxLen
    /\ session_timeout = SESSION_TIMEOUT
    /\ contexts = [u \in Users |-> NoCtx]
    /\ now = 0
    /\ appended = [u \in Users |-> <<>>]
    /\ cache = <<>>
    /\ gen = GenIdle
    /\ prev = NoCall
    /\ elapsed = 0
    /\ request_count = 0
    /\ error_count = 0
    /\ svc = SvcIdle
    /\ threads = [t \in Threads |-> ThreadIdle]
    /\ objs = NoObjs
    /\ call = Uncalled

HistoryNext ==
    \/ \E c \in Contents : ObjAppend(c)
    \/ ObjHistory
    \/ CallerAppends
    \/ CallerRemoves
    \/ \E i \in 1..MaxObjects : CallerEdits(i)

HistorySpec == HistoryInit /\ [][HistoryNext]_vars

\* ------------------------------------------------------------ store claims
\* The n most recent elements of s, oldest first.
LastN(s, n) == SubSeq(s, Len(s) - n + 1, Len(s))

\* C1: in every reachable state of the context store, every stored context holds
\* at most max_length messages, for every configured max_length >= 0.
C1_LengthWithinCap ==
    \A u \in Users :
        contexts[u] # NoCtx => Len(contexts[u].messages) <= contexts[u].max_length

\* The cap holds whenever the configured max_length is at least 1.
LengthWithinPositiveCap ==
    max_context_length >= 1 => C1_LengthWithinCap

\* C2: after N appends to one context with max_length = L < N, with no reset and
\* no expiry in between, the history is exactly the L most recently appended
\* messages, in the order they were appended.
C2_LastLKept ==
    \A u \in Users :
        (/\ contexts[u] # NoCtx
         /\ ~is_expired(contexts[u], now)
         /\ Len(appended[u]) > contexts[u].max_length)
        => get_context(contexts, u, now)[u].messages
               = LastN(appended[u], contexts[u].max_length)

\* The same, when the configured max_length is at least 1.
LastLKeptPositiveCap ==
    max_context_length >= 1 => C2_LastLKept

\* ----------------------------------------------------------- client claims
\* The call in progress has returned, and a call with the same history came
\* before it.
SecondSameCallDone ==
    /\ gen.pc = "done"
    /\ prev # NoCall
    /\ prev.conversation_history = gen.conversation_history

\* The second call looks the cache up before the entry the first call stored
\* has run out.
SecondCallWithinTTL ==
    /\ SecondSameCallDone
    /\ prev.stored_at >= 0
    /\ gen.started_at < prev.stored_at + CACHE_TTL
    /\ gen.looked_at < prev.stored_at + CACHE_TTL

\* C4 (as claimed): two generate_response calls with an identical history made
\* within the cache TTL issue exactly one network call in total, and the second
\* returns the text the first returned.
C4_OneRequestInTotal ==
    SecondCallWithinTTL
    => (/\ prev.net_calls + gen.net_calls = 1
        /\ ~gen.raised
        /\ gen.result = prev.result)

\* C4 (amended): when the first call stored a reply and the second call, with
\* the same history, looks the cache up before that entry's TTL has run out, the
\* second call issues no network call and returns the text of the first; the
\* network calls of the two are those of the first, between 1 and MAX_RETRIES.
C4_SecondCallFromCache ==
    SecondCallWithinTTL
    => (/\ gen.net_calls = 0
        /\ ~gen.raised
        /\ gen.result = prev.result
        /\ prev.net_calls \in 1..MAX_RETRIES)

C4_Witness == SecondCallWithinTTL /\ prev.net_calls = 2 /\ gen.started_at > prev.stored_at

\* C5: with MAX_RETRIES = 3, a 503 on the first two attempts and a 200 with a
\* usable payload on the third make generate_response return the cleaned text
\* of the third response after exactly two backoff waits (of 5 and 10 seconds)
\* and exactly three network calls.
\* The call has returned after three requests: two answered 503, the last one
\* 200 with a usable payload.
TwoColdStartsThenReply ==
    /\ gen.pc = "done"
    /\ gen.net_calls = 3
    /\ gen.cold_starts = 2
    /\ gen.last = "200"

C5_TwoColdStartsThenReply ==
    TwoColdStartsThenReply
    => (/\ MAX_RETRIES = 3
        /\ gen.result = _clean_response(_extract_generated_text(gen.payload))
        /\ Truthy(_extract_generated_text(gen.payload))
        /\ ~gen.raised
        /\ gen.waits = 2
        /\ gen.slept = 1 * BACKOFF_503 + 2 * BACKOFF_503
        /\ gen.net_calls = 3)

C5_Witness == TwoColdStartsThenReply /\ gen.result = <<"o", "k", ".">>

\* The steps of a generate_response call, and a measure that every one of them
\* lowers.
CallStep == GenCacheRead \/ (\E o \in Outcomes : GenAttempt(o)) \/ GenSleep

Running == gen.pc \in {"hit", "attempt", "sleep"}

Rank(g) ==
    IF g.pc \in {"idle", "done"} THEN 0
    ELSE IF g.pc = "hit" THEN 1
    ELSE 2 * (MAX_RETRIES - g.attempt) - (IF g.pc = "sleep" THEN 1 ELSE 0)

\* C6: whatever the endpoint answers, one generate_response call terminates
\* (a call that has not returned can always take a step, and every step lowers
\* a measure that is never negative), issues at most MAX_RETRIES requests, and
\* issues them one after another: request k+1 is issued only after request k was
\* answered and the wait it called for has passed.
C6_BoundedSequentialAttempts ==
    /\ [](/\ gen.net_calls <= MAX_RETRIES
          /\ Rank(gen) >= 0
          /\ (gen.pc = "attempt" => gen.net_calls = gen.attempt /\ gen.wait_time = 0)
          /\ (Running => ENABLED CallStep))
    /\ [][/\ (Running /\ gen' # gen) => Rank(gen') < Rank(gen)
          /\ (gen'.net_calls > gen.net_calls)
                 => (gen.pc = "attempt" /\ gen'.net_calls = gen.net_calls + 1)
          /\ (gen.pc = "sleep" /\ gen' # gen)
                 => (gen'.net_calls = gen.net_calls /\ now' >= now + gen.wait_time
                     /\ gen.wait_time > 0)]_vars

C6_Witness ==
    gen.pc = "done" /\ gen.net_calls = MAX_RETRIES /\ gen.waits = 2
        /\ gen.last = "timeout"

\* ---------------------------------------------------------- service claims
\* process_message has its return value, and the message passed the gate.
Answered == svc.pc = "done" /\ svc.after_user # NoCtx

\* The message as add_user_message stored it.
UserEntry == [role |-> "user", content |-> svc.message, timestamp |-> svc.sent_at]

\* Inference failed by one of the four kinds on its last attempt.
InferenceFailed ==
    Answered /\ svc.gen_last \in {"timeout", "other", "fault", "200-unusable"}

\* C7: when inference fails for a message (the attempts are used up by a
\* timeout, another HTTP status, a transport fault or an unusable 200 payload),
\* process_message returns the fixed message of the failure kind (the timeout
\* message for a timeout, the generic error otherwise) and appends no assistant
\* entry: the stored context is as recording the user's message left it.
C7_FailureMessageAndNoReply ==
    InferenceFailed
    => (/\ svc.ret = IF svc.gen_last = "timeout" THEN MSG_api_timeout ELSE MSG_error
        /\ contexts[svc.user_id] = svc.after_user)

\* C8 (as claimed): if generate_response fails for a message, the stored
\* history after process_message is the history before the call.
C8_HistoryUnchangedOnFailure ==
    (Answered /\ (svc.raised \/ svc.ai_response \in {None, <<>>}))
    => contexts[svc.user_id].messages = svc.history_before

\* C8 (amended): if generate_response raises or returns None or an empty text
\* for a message, process_message returns the generic error text and the
\* stored history is the history before the call with the user's message
\* appended (and the cap applied); no assistant entry follows it.
C8_UserMessageKeptOnFailure ==
    (Answered /\ (svc.raised \/ svc.ai_response \in {None, <<>>}))
    => LET msgs == contexts[svc.user_id].messages
           all == Append(svc.history_before, UserEntry)
       IN  /\ svc.ret = MSG_error
           /\ msgs = IF Len(all) > max_context_length
                     THEN PySliceFrom(all, 0 - max_context_length) ELSE all
           /\ msgs[Len(msgs)] = UserEntry

C8_Witness ==
    /\ Answered
    /\ svc.ai_response = None
    /\ svc.gen_last = "503"
    /\ svc.history_before # <<>>
    /\ Len(contexts[svc.user_id].messages) = Len(svc.history_before) + 1

\* C9: when the gate rejects a message, process_message returns the content
\* warning in one step that changes neither the context store nor the cache
\* and does not call generate_response.
C9_RejectionTouchesNothing ==
    [][(svc.pc = "idle" /\ svc'.pc # "idle"
            /\ contains_inappropriate_content(svc'.message))
       => (/\ svc'.pc = "done"
           /\ svc'.ret = MSG_content_warning
           /\ contexts' = contexts
           /\ appended' = appended
           /\ gen' = gen
           /\ cache' = cache)]_vars

C9_Witness ==
    /\ svc.pc = "done"
    /\ svc.message = T_caps
    /\ svc.ret = MSG_content_warning
    /\ svc.after_user = NoCtx
    /\ contexts[svc.user_id] # NoCtx
    /\ gen.pc = "idle"

\* C10: when generate_response gives process_message a reply (and max_length is
\* at least 2), process_message returns that reply, and the last two entries of
\* the user's history are then the user's message and the reply, however long
\* the inference took.
C10_ReplyReturnedAndRecorded ==
    (Answered /\ ~svc.raised /\ Truthy(svc.ai_response) /\ max_context_length >= 2)
    => LET msgs == contexts[svc.user_id].messages
           n == Len(msgs)
       IN  /\ svc.ret = svc.ai_response
           /\ n >= 2
           /\ msgs[n - 1].role = "user" /\ msgs[n - 1].content = svc.message
           /\ msgs[n].role = "assistant" /\ msgs[n].content = svc.ai_response

\* ------------------------------------------------------ concurrency claims
\* C3: for every interleaving of two add_user_message calls for the same user
\* on different threads (the first access that creates the context included), no
\* append is lost: once both calls have returned, and the cap is not exceeded,
\* the message of each is in the user's history.
C3_NoLostAppend ==
    (/\ \A t \in Threads : threads[t].pc = "done"
     /\ Cardinality(Threads) <= max_context_length)
    => \A t \in Threads :
           \E i \in 1..Len(contexts[TheUser].messages) :
               contexts[TheUser].messages[i].content = ThreadText(t)

\* ------------------------------------------------- store claims, continued
\* The context is stored and its session has not run out at time t.
Live(ctx, t) == IF ctx = NoCtx THEN FALSE ELSE ~(t > ctx.updated_at + ctx.timeout)

\* C11: a get_context(user_id) step leaves under user_id a context that is not
\* expired: a live context as it was (messages and timestamps unchanged), and
\* in place of a missing or expired one a fresh context with no messages and
\* created_at = updated_at = the current time; no other entry changes.
C11_GetContextLiveOrFresh ==
    [][\A u \in Users :
           GetContext(u) =>
               /\ Live(contexts'[u], now')
               /\ IF Live(contexts[u], now)
                  THEN contexts'[u] = contexts[u]
                  ELSE contexts'[u] =
                           [user_id |-> u, max_length |-> max_context_length,
                            timeout |-> session_timeout, created_at |-> now,
                            updated_at |-> now, messages |-> <<>>]
               /\ \A v \in Users \ {u} : contexts'[v] = contexts[v]]_vars

\* A context created by get_context later than the start, while another user's
\* expired context with its messages is still stored.
C11_Witness ==
    \E u, v \in Users :
        /\ contexts[u] # NoCtx /\ contexts[v] # NoCtx
        /\ contexts[u].created_at = now /\ now > 0 /\ contexts[u].messages = <<>>
        /\ ~Live(contexts[v], now) /\ contexts[v].messages # <<>>

\* C12: over the clock of the model, is_expired() holds iff now > updated_at +
\* timeout; it is false in the instant a context is created or a message is
\* appended; and where it holds, at least timeout seconds have passed since the
\* context was created and since its last message was appended.
C12_ExpiredOnlyAfterTimeout ==
    \A u \in Users :
        contexts[u] # NoCtx =>
            LET ctx == contexts[u]
                n == Len(ctx.messages)
            IN  /\ is_expired(ctx, now) <=> now > ctx.updated_at + ctx.timeout
                /\ ctx.created_at = now => ~is_expired(ctx, now)
                /\ (n > 0 /\ ctx.messages[n].timestamp = now) => ~is_expired(ctx, now)
                /\ is_expired(ctx, now) =>
                       /\ now >= ctx.created_at + ctx.timeout
                       /\ n > 0 => now >= ctx.messages[n].timestamp + ctx.timeout

\* A context with a timeout of a second, expired after an append.
C12_Witness ==
    \E u \in Users :
        /\ contexts[u] # NoCtx
        /\ contexts[u].timeout >= 1
        /\ contexts[u].messages # <<>>
        /\ is_expired(contexts[u], now)
        /\ now = contexts[u].updated_at + contexts[u].timeout + 1

\* C13: for every user, the updated_at of the context stored under the user
\* never decreases, whatever the operations (append, reset, recreation after
\* expiry, sweep and a later creation): it is never later than the clock, a
\* step that keeps a context does not lower it, a step that stores a context
\* where there was none sets it to the current time, and so does every append.
C13_UpdatedAtNeverDecreases ==
    /\ [](\A u \in Users : contexts[u] # NoCtx => contexts[u].updated_at <= now)
    /\ [][\A u \in Users :
              /\ (contexts[u] # NoCtx /\ contexts'[u] # NoCtx)
                     => contexts'[u].updated_at >= contexts[u].updated_at
              /\ (contexts[u] = NoCtx /\ contexts'[u] # NoCtx)
                     => contexts'[u].updated_at = now'
              /\ (\E c \in Contents : AddUserMessage(u, c) \/ AddBotMessage(u, c))
                     => contexts'[u].updated_at = now']_vars

\* A context appended to later than it was created.
C13_Witness ==
    \E u \in Users :
        /\ contexts[u] # NoCtx
        /\ contexts[u].messages # <<>>
        /\ contexts[u].updated_at > contexts[u].created_at
        /\ contexts[u].messages[Len(contexts[u].messages)].timestamp
               = contexts[u].updated_at

\* C14: get_conversation_history returns a defensive copy: whatever the caller
\* does to the value it was handed (adding or removing entries, changing a
\* returned message), the store's history stays what the store appended, and
\* whatever the store appends later, the value handed out stays what the caller
\* made of it.
C14_HistoryIsDefensiveCopy ==
    /\ Values(objs, objs.messages) = objs.stored
    /\ objs.handed => Values(objs, objs.history) = objs.seen

\* C15: a clear_user_context(user_id) step on a user that has a context leaves
\* the record in the mapping (the same context, by user_id and created_at), and
\* get_conversation_history(user_id) right afterwards is empty.
C15_ResetEmptiesAndKeepsRecord ==
    [][\A u \in Users :
           (ClearUserContext(u) /\ contexts[u] # NoCtx) =>
               /\ contexts'[u] # NoCtx
               /\ contexts'[u].user_id = u
               /\ contexts'[u].created_at = contexts[u].created_at
               /\ get_conversation_history(contexts', u, now') = <<>>]_vars

\* A context emptied by a reset later than it was created, the other user's
\* context still holding its messages.
C15_Witness ==
    \E u, v \in Users :
        /\ contexts[u] # NoCtx /\ contexts[v] # NoCtx
        /\ contexts[u].messages = <<>>
        /\ contexts[u].updated_at > contexts[u].created_at
        /\ contexts[v].messages # <<>>

\* C16: clear_user_context(user_id) returns whether anything was cleared: true
\* iff the user has a context with at least one message, false when there is no
\* context or its message list is already empty.
C16_ResetReturnsWhetherCleared ==
    [][\A u \in Users :
           ClearUserContext(u) =>
               (clear_user_context_returns(contexts, u)
                    <=> IF contexts[u] = NoCtx THEN FALSE
                        ELSE contexts[u].messages # <<>>)]_vars

\* C17 (as claimed): a clear_user_context step leaves updated_at and created_at
\* of the context unchanged, and with them whether the context is expired.
C17_ResetLeavesTimestamps ==
    [][\A u \in Users :
           (ClearUserContext(u) /\ contexts[u] # NoCtx) =>
               /\ contexts'[u].updated_at = contexts[u].updated_at
               /\ contexts'[u].created_at = contexts[u].created_at
               /\ is_expired(contexts'[u], now') <=> is_expired(contexts[u], now)]_vars

\* C17 (amended): a clear_user_context step empties the history, leaves
\* created_at (and the cap and the timeout) unchanged and sets updated_at to
\* the current time: the reset restarts the expiry timer, and right after it
\* the context is not expired, whether or not it was before.
C17_ResetRestartsTimer ==
    [][\A u \in Users :
           (ClearUserContext(u) /\ contexts[u] # NoCtx) =>
               /\ contexts'[u] = [contexts[u] EXCEPT !.messages = <<>>,
                                                     !.updated_at = now']
               /\ ~(now' > contexts'[u].updated_at + contexts'[u].timeout)]_vars

\* A context reset at a time when, counted from its creation, its session had
\* run out.
C17_Witness ==
    \E u \in Users :
        /\ contexts[u] # NoCtx
        /\ contexts[u].messages = <<>>
        /\ contexts[u].updated_at = now
        /\ now > contexts[u].created_at + contexts[u].timeout
        /\ ~is_expired(contexts[u], now)

\* C18: a cleanup_expired_contexts step removes from the mapping exactly the
\* contexts that are expired at the time of the call and leaves every other
\* entry as it was; it returns the number of contexts removed; and right after
\* it no context in the mapping is expired.
C18_SweepRemovesExactlyExpired ==
    [][CleanupExpiredContexts =>
           /\ \A u \in Users :
                  contexts'[u] = IF Live(contexts[u], now) THEN contexts[u] ELSE NoCtx
           /\ cleanup_expired_contexts_returns(contexts, now)
                  = Cardinality({u \in Users : contexts[u] # NoCtx /\ contexts'[u] = NoCtx})
           /\ \A u \in Users : contexts'[u] # NoCtx => Live(contexts'[u], now')]_vars

\* The sweep has work to do and work to leave: an expired context and a live
\* one, both holding messages.
C18_Witness ==
    \E u, v \in Users :
        /\ contexts[u] # NoCtx /\ contexts[v] # NoCtx
        /\ is_expired(contexts[u], now) /\ contexts[u].messages # <<>>
        /\ ~is_expired(contexts[v], now) /\ contexts[v].messages # <<>>
        /\ contexts[v].updated_at < now

\* ------------------------------------------------------- lifecycle claims
\* C19: every context that becomes expired is eventually gone from the mapping
\* (removed by the sweep, or at least replaced), even if its user never sends
\* another message or command.
C19_ExpiredEventuallyRemoved ==
    \A u \in Users :
        (IF contexts[u] = NoCtx THEN FALSE ELSE is_expired(contexts[u], now))
            ~> (IF contexts[u] = NoCtx THEN TRUE ELSE ~is_expired(contexts[u], now))

\* ------------------------------------------------ client claims, continued
\* C20: after a 200 whose payload yields no text, generate_response goes on to
\* the next attempt (at once, without a wait) if the attempt was not the last,
\* and returns the canned fallback text if it was the last of the MAX_RETRIES
\* attempts; and it returns the fallback text in that case only.
C20_FallbackOnLastUnusableOnly ==
    /\ gen.last = "200-unusable" =>
           \/ /\ gen.pc = "attempt"
              /\ gen.net_calls < MAX_RETRIES
              /\ gen.attempt = gen.net_calls
              /\ gen.wait_time = 0
           \/ /\ gen.pc = "done"
              /\ gen.net_calls = MAX_RETRIES
              /\ gen.result = FALLBACK_REPLY
    /\ (gen.pc = "done" /\ gen.result = FALLBACK_REPLY) =>
           /\ gen.last = "200-unusable"
           /\ gen.net_calls = MAX_RETRIES

\* The fallback returned after a cold start, a retried unusable payload and an
\* unusable payload on the last attempt.
C20_Witness ==
    /\ gen.pc = "done"
    /\ gen.result = FALLBACK_REPLY
    /\ gen.cold_starts = 1
    /\ gen.waits = 1
    /\ gen.net_calls = MAX_RETRIES

\* ------------------------------------------------- claims on the boundary
\* The fixed texts process_message can hand to the user.
FixedMessages ==
    {MSG_content_warning, MSG_error, MSG_api_timeout, FALLBACK_REPLY, GREETING_REPLY}

\* The replies the endpoint's payloads yield once extracted and cleaned.
GeneratedReplies ==
    {_clean_response(_extract_generated_text(b)) :
        b \in {p \in Payloads : Truthy(_extract_generated_text(p))}}

\* C21: for every message, store state and behaviour of the endpoint (a fault
\* raised by the context store, or by the cache read inside generate_response,
\* included), process_message
\* does not raise: when it is over it has a return value, and that value is the
\* generated reply or one of the fixed user-facing texts.
C21_AlwaysReturnsReplyOrFixedText ==
    svc.pc = "done"
    => /\ svc.ret # None
       /\ svc.ret \in FixedMessages \cup GeneratedReplies
       /\ svc.raised => svc.ret = MSG_error

\* A cache entry expired between the membership test and the read: the KeyError
\* was caught and the generic error returned.
C21_Witness ==
    /\ svc.pc = "done"
    /\ svc.raised
    /\ svc.after_user # NoCtx
    /\ svc.ret = MSG_error

\* C22: the response cache never holds more than its capacity, under any
\* sequence or interleaving of the cache writes of generate_response calls.
C22_CacheWithinCapacity == Len(cache) <= CACHE_MAXSIZE

\* C23: the cache is written only by an attempt that received HTTP 200 with a
\* recognized payload, and what it writes is that call's key with the cleaned
\* text; every other step of generate_response (a failed or timed-out attempt,
\* the fallback, a wait, a cache hit, the return) leaves the cache as it was.
C23_CacheWrittenOnlyOnUsable200 ==
    [][cache' # cache
       => /\ gen.pc = "attempt"
          /\ gen'.pc = "done"
          /\ gen'.last = "200"
          /\ gen'.result = _clean_response(_extract_generated_text(gen'.payload))
          /\ cache'[Len(cache')].key = gen.cache_key
          /\ cache'[Len(cache')].value = gen'.result]_vars

\* A call ended with the fallback text while the cache held another call's
\* reply, and holds nothing for this call's key.
C23_Witness ==
    /\ gen.pc = "done"
    /\ gen.last = "200-unusable"
    /\ gen.result = FALLBACK_REPLY
    /\ gen.net_calls = MAX_RETRIES
    /\ cache # <<>>
    /\ \A i \in 1..Len(cache) : cache[i].key # gen.cache_key

\* ------------------------------------------------------- claims on helpers
\* C24: test_connection does not raise and makes a single request; it returns
\* true iff that request was answered with HTTP status 200, 503 or 422, and
\* false for every other status and for every transport fault or timeout.
C24_ProbeReachableStatuses ==
    call.fn = "test_connection"
    => /\ call.ret \in BOOLEAN
       /\ call.requests = 1
       /\ call.ret = TRUE
            <=> (call.arg.kind = "http" /\ call.arg.status \in {200, 503, 422})
       /\ call.arg.kind \in {"timeout", "fault"} => call.ret = FALSE

C24_Witness ==
    /\ call.fn = "test_connection"
    /\ call.arg.kind = "http"
    /\ call.arg.status = 422
    /\ call.ret = TRUE

\* The lines of a text: what lies between its newline characters.
Newlines(p) == {i \in 1..Len(p) : p[i] = "\n"}
NthNewline(p, k) ==
    IF k = 0 THEN 0
    ELSE IF k > Cardinality(Newlines(p)) THEN Len(p) + 1
    ELSE CHOOSE i \in Newlines(p) : Cardinality({j \in Newlines(p) : j <= i}) = k
Lines(p) ==
    [k \in 1..(Cardinality(Newlines(p)) + 1) |->
        SubSeq(p, NthNewline(p, k - 1) + 1, NthNewline(p, k) - 1)]

\* The label a role is rendered with.
RoleLabel(role) == IF role = "user" THEN USER_LABEL ELSE ASSISTANT_MARKER

\* C26: _build_prompt renders the fixed preamble, then one line "<RoleLabel>
\* <content>" for each of only the PROMPT_WINDOW most recent history entries, in
\* their order, then the assistant marker on a line of its own; for an empty
\* history it returns the greeting prompt, which is not empty.
C26_PromptIsWindowedRendering ==
    call.fn = "_build_prompt"
    => LET h == call.arg
           p == call.ret
           m == IF Len(h) < PROMPT_WINDOW THEN Len(h) ELSE PROMPT_WINDOW
       IN  IF h = <<>> THEN p = GREETING_PROMPT /\ p # <<>>
           ELSE /\ Len(Lines(p)) = m + 2
                /\ Lines(p)[1] = PREAMBLE
                /\ Lines(p)[m + 2] = ASSISTANT_MARKER
                /\ \A k \in 1..m :
                      Lines(p)[1 + k] = RoleLabel(h[Len(h) - m + k].role) \o <<" ">>
                                            \o h[Len(h) - m + k].content

\* A history longer than the window was rendered.
C26_Witness ==
    /\ call.fn = "_build_prompt"
    /\ Len(call.arg) = PROMPT_WINDOW + 1
    /\ call.arg[1].role = "user"
    /\ call.arg[PROMPT_WINDOW + 1].role = "assistant"
    /\ Len(Lines(call.ret)) = PROMPT_WINDOW + 2

\* The records of a list payload that have the generated_text field.
WithText(items) ==
    {i \in 1..Len(items) : items[i].isdict /\ HasField(items[i].fields, "generated_text")}

\* Where the marker occurs last in a text.
LastMarker(text) ==
    CHOOSE i \in 1..Len(text) :
        /\ OccursAt(text, ASSISTANT_MARKER, i)
        /\ \A j \in (i + 1)..Len(text) : ~OccursAt(text, ASSISTANT_MARKER, j)

\* C27: on a list payload _extract_generated_text returns the generated_text of
\* the first record that has the field, reduced, when the marker occurs in it,
\* to what follows the last occurrence of the marker (without the whitespace
\* around it), so that the result neither starts with nor contains the marker;
\* on a list without such a record (the empty list too) it returns None.
C27_ExtractAfterLastMarker ==
    (call.fn = "_extract_generated_text" /\ call.arg.kind = "list")
    => LET items == call.arg.items
       IN  IF WithText(items) = {} THEN call.ret = None
           ELSE LET first == CHOOSE i \in WithText(items) :
                                 \A j \in WithText(items) : i <= j
                    text == items[first].fields.generated_text
                IN  IF Contains(text, ASSISTANT_MARKER)
                    THEN /\ call.ret = Strip(SubSeq(text,
                                           LastMarker(text) + Len(ASSISTANT_MARKER),
                                           Len(text)))
                         /\ ~Contains(call.ret, ASSISTANT_MARKER)
                    ELSE call.ret = text

\* The second item is the first with the field, and its text holds the marker
\* twice.
C27_Witness ==
    /\ call.fn = "_extract_generated_text"
    /\ Len(call.arg.items) = 2
    /\ WithText(call.arg.items) = {2}
    /\ call.arg.items[2].fields.generated_text
           = <<"A", ":", "h", "i", " ", "A", ":", " ", "o", "k", " ">>
    /\ call.ret = <<"o", "k">>

\* C28: for every non-empty input (one of whitespace only included),
\* _clean_response returns a text whose last character is one of . ! ? : ) ] }
C28_CleanEndsWithTerminal ==
    (call.fn = "_clean_response" /\ call.arg # <<>>)
    => /\ call.ret # <<>>
       /\ call.ret[Len(call.ret)] \in Terminals

\* C29: sanitize_text is idempotent: applied to its own result it returns that
\* result, also when the input was longer than SANITIZE_LIMIT and was cut and
\* marked with the ellipsis.
C29_SanitizeIdempotent ==
    call.fn = "sanitize_text" => call.again = call.ret

\* A text longer than the limit was cut right after a space.
C29_Witness ==
    /\ call.fn = "sanitize_text"
    /\ Len(call.arg) > SANITIZE_LIMIT + 1
    /\ Len(call.ret) = SANITIZE_LIMIT + 3
    /\ SubSeq(call.ret, SANITIZE_LIMIT, SANITIZE_LIMIT + 3) = <<" ", ".", ".", ".">>
    /\ call.again = call.ret

\* ------------------------------------------------------ claims on the bot
\* Whether handle_message turns a text away before process_message.
FailsValidation(x) == Blank(x) \/ Len(x) > MESSAGE_LIMIT \/ HasRun(x, REPEAT_RUN)
FailsFilter(x) == ~FailsValidation(x) /\ contains_bad_words(sanitize_text(x))

\* C25: handle_message validates, then sanitizes, then asks the content filter,
\* then calls process_message.  A text that fails validation or the filter
\* does not reach process_message: no request is counted, no inference call is
\* made, the cache and the histories are as before.  A validation failure is
\* answered with the too-long text when the text is not blank and longer than
\* MESSAGE_LIMIT, and with the empty-message text otherwise; a text that passes
\* reaches process_message sanitized.
C25_ValidateSanitizeGateInfer ==
    [][\A u \in Callers, x \in SentTexts :
         HandleMessage(u, x)
         => IF FailsValidation(x) \/ FailsFilter(x)
            THEN /\ <<storeVars, clientVars, serviceVars>>'
                      = <<storeVars, clientVars, serviceVars>>
                 /\ call'.reply =
                        IF FailsFilter(x) THEN MSG_content_warning
                        ELSE IF ~Blank(x) /\ Len(x) > MESSAGE_LIMIT
                        THEN MSG_message_too_long
                        ELSE MSG_empty_message
            ELSE /\ request_count' = request_count + 1
                 /\ svc'.message = sanitize_text(x)
                 /\ svc'.pc # "idle"]_vars

\* A text longer than the limit was answered with the too-long text while the
\* store held an exchange, which is still there.
C25_Witness ==
    /\ call # Uncalled
    /\ call.fn = "handle_message"
    /\ call.reply = MSG_message_too_long
    /\ contexts[1] # NoCtx
    /\ Len(contexts[1].messages) = 2
    /\ request_count = 0
    /\ gen = GenIdle

\* ------------------------------------------------- claims on the backoff
\* C30: a 503 on attempt k (counted from 1) is followed by a wait of
\* BACKOFF_503 * k seconds and a 429 by a wait of BACKOFF_429 seconds; each
\* such response uses up one attempt, so that a call answered only by 503 and
\* 429 fails after exactly MAX_RETRIES requests; and a wait is made only when
\* another attempt follows it.
C30_BackoffOnlyBeforeRetry ==
    /\ gen.pc = "sleep"
       => /\ gen.last \in {"503", "429"}
          /\ gen.wait_time = IF gen.last = "503" THEN BACKOFF_503 * (gen.attempt + 1)
                             ELSE BACKOFF_429
          /\ gen.attempt + 1 < MAX_RETRIES
    /\ (gen.pc = "done" /\ gen.net_calls > 0 /\ gen.waits = gen.net_calls)
       => gen.result = None /\ gen.net_calls = MAX_RETRIES

\* The parts of C30 on the length of the waits and on the attempts used up.
C30_WaitsAndBudget ==
    /\ gen.pc = "sleep"
       => /\ gen.last \in {"503", "429"}
          /\ gen.wait_time = IF gen.last = "503" THEN BACKOFF_503 * (gen.attempt + 1)
                             ELSE BACKOFF_429
    /\ (gen.pc = "done" /\ gen.net_calls > 0 /\ gen.waits = gen.net_calls)
       => gen.result = None /\ gen.net_calls = MAX_RETRIES

\* ------------------------------------------------- claims on user isolation
\* The operations of the store that are invoked for one user.
StoreOperationFor(u) ==
    \/ GetContext(u)
    \/ \E c \in Contents : AddUserMessage(u, c)
    \/ \E c \in Contents : AddBotMessage(u, c)
    \/ GetConversationHistory(u)
    \/ ClearUserContext(u)

\* C31: an operation of the store invoked for user u (get_context,
\* add_user_message, add_bot_message, get_conversation_history,
\* clear_user_context) leaves the record of every other user as it was: whether
\* there is one, its messages, its timestamps, its cap and its timeout.
C31_OtherUsersUnchanged ==
    [][\A u \in Users :
         StoreOperationFor(u)
         => \A v \in Users \ {u} :
                /\ contexts'[v] = contexts[v]
                /\ appended'[v] = appended[v]]_vars

\* User 1 wrote twice after the context of user 2 had expired: the record of
\* user 2 is still there, empty and with its old timestamps.
C31_Witness ==
    /\ contexts[1] # NoCtx
    /\ contexts[2] # NoCtx
    /\ Len(contexts[1].messages) = 2
    /\ contexts[2].messages = <<>>
    /\ is_expired(contexts[2], now)
    /\ contexts[1].created_at > contexts[2].updated_at
    /\ contexts[1].updated_at = now

\* ------------------------------------- the counters under concurrent calls
\* process_message run by the executor's threads, as far as the two counters
\* go.  `self.request_count += 1` and `self.error_count += 1` are each a read
\* of the attribute, an addition and a write of the attribute, and AIService
\* holds no lock: another thread may run between the read and the write.  What
\* the body does to the store and to the client is in the specifications
\* above; here a call either returns a reply or ends in one of its three error
\* branches (the gate, no reply, an exception).
CounterIdle == [pc |-> "idle", loaded |-> 0, calls |-> 0]

\* Line 258, first half: thread t reads request_count.
LoadRequestCount(t) ==
    /\ threads[t].pc = "idle"
    /\ threads[t].calls < MaxRequests
    /\ threads' = [threads EXCEPT ![t].pc = "store_requests",
                                  ![t].loaded = request_count]
    /\ UNCHANGED <<storeVars, clientVars, serviceVars, objs, call>>

\* Line 258, second half: thread t writes what it read, plus one.
StoreRequestCount(t) ==
    /\ threads[t].pc = "store_requests"
    /\ request_count' = threads[t].loaded + 1
    /\ threads' = [threads EXCEPT ![t].pc = "body", ![t].loaded = 0]
    /\ UNCHANGED <<storeVars, clientVars, error_count, svc, objs, call>>

\* Lines 260-287: the body returns a reply, or reaches one of the statements
\* `self.error_count += 1` (lines 264, 281 and 286; each is followed by a
\* return, so a call reaches at most one of them).
BodyEnds(t, failed) ==
    /\ threads[t].pc = "body"
    /\ threads' = [threads EXCEPT ![t].pc = IF failed THEN "load_errors" ELSE "return"]
    /\ UNCHANGED <<storeVars, clientVars, serviceVars, objs, call>>

\* `self.error_count += 1`, first half.
LoadErrorCount(t) ==
    /\ threads[t].pc = "load_errors"
    /\ threads' = [threads EXCEPT ![t].pc = "store_errors",
                                  ![t].loaded = error_count]
    /\ UNCHANGED <<storeVars, clientVars, serviceVars, objs, call>>

\* `self.error_count += 1`, second half.
StoreErrorCount(t) ==
    /\ threads[t].pc = "store_errors"
    /\ error_count' = threads[t].loaded + 1
    /\ threads' = [threads EXCEPT ![t].pc = "return", ![t].loaded = 0]
    /\ UNCHANGED <<storeVars, clientVars, request_count, svc, objs, call>>

\* The call of thread t returns.
ProcessMessageReturns(t) ==
    /\ threads[t].pc = "return"
    /\ threads' = [threads EXCEPT ![t].pc = "idle", ![t].calls = @ + 1]
    /\ UNCHANGED <<storeVars, clientVars, serviceVars, objs, call>>

\* AIService.get_stats: the success rate it reports.  The division is exact
\* for the counts of the model or is rounded down; the sign and the comparison
\* with 100 are those of the quotient of the code.
success_rate(requests, errors) ==
    IF requests > 0
    THEN IF requests >= errors
         THEN ((requests - errors) * 100) \div requests
         ELSE 0 - (((errors - requests) * 100) \div requests)
    ELSE 100

CounterRaceInit ==
    /\ max_context_length = MaxLen
    /\ session_timeout = MaxTimeout
    /\ contexts = [u \in Users |-> NoCtx]
    /\ now = 0
    /\ appended = [u \in Users |-> <<>>]
    /\ cache = <<>>
    /\ gen = GenIdle
    /\ prev = NoCall
    /\ elapsed = 0
    /\ request_count = 0
    /\ error_count = 0
    /\ svc = SvcIdle
    /\ threads = [t \in Threads |-> CounterIdle]
    /\ objs = NoObjs
    /\ call = Uncalled

CounterRaceNext ==
    \/ \E t \in Threads : LoadRequestCount(t)
    \/ \E t \in Threads : StoreRequestCount(t)
    \/ \E t \in Threads, failed \in BOOLEAN : BodyEnds(t, failed)
    \/ \E t \in Threads : LoadErrorCount(t)
    \/ \E t \in Threads : StoreErrorCount(t)
    \/ \E t \in Threads : ProcessMessageReturns(t)

CounterRaceSpec == CounterRaceInit /\ [][CounterRaceNext]_vars

\* The calls of process_message that have returned.
CompletedCalls == threads[1].calls + threads[2].calls

\* C32: error_count is never negative and never above request_count, also
\* when calls run at once on the executor's threads; once every call made has
\* returned, request_count is the number of calls; and the success rate that
\* get_stats reports is between 0 and 100.
C32_CountersConsistent ==
    /\ 0 <= error_count
    /\ error_count <= request_count
    /\ (\A t \in Threads : threads[t].pc = "idle") => request_count = CompletedCalls
    /\ success_rate(request_count, error_count) \in 0..100

\* The part of C32 on calls made one after another: the counters are ordered,
\* and a call counts itself once on entry and at most one error by its return.
C32_OneAtATimeOrdered ==
    /\ 0 <= error_count
    /\ error_count <= request_count
    /\ success_rate(request_count, error_count) \in 0..100

C32_OneAtATimeSteps ==
    [][/\ request_count' \in {request_count, request_count + 1}
       /\ error_count' \in {error_count, error_count + 1}
       /\ (\E u \in Callers, m \in UserTexts : SvcCall(u, m))
          => request_count' = request_count + 1]_vars

\* --------------------------------------- claims on what generate_response raises
\* C33: generate_response never propagates an exception: whatever the history,
\* the endpoint and the cache do (an entry may expire or be evicted between
\* the membership test and the read of its key), a call that is over has
\* returned a text or None.
C33_NeverPropagates ==
    gen.pc = "done" => ~gen.raised

\* The part of C33 on the retry loop: a call that sent a request has returned
\* a text or None, whatever the endpoint did.
C33_LoopNeverPropagates ==
    (gen.pc = "done" /\ gen.net_calls > 0) => ~gen.raised

\* ------------------------------------ the sweep beside a request in progress
\* cleanup_expired_contexts on one thread while another thread runs
\* add_user_message; the store takes no lock.  The sweep first builds the list
\* of the expired users by iterating over the mapping, calling is_expired for
\* each entry, and then deletes the listed keys one by one; the other thread
\* can run between any two of these steps.  The locals of the sweep are in
\* `call`.  The mapping is iterated in the order of insertion, here the order
\* of the user ids; an entry inserted while the iterator is at work changes the
\* size of the mapping, which the iterator tests at every step.
Requester == 1

Keys(cs) == {u \in Users : cs[u] # NoCtx}

\* cleanup_expired_contexts is called: the iterator over self.contexts.items()
\* is made and records the size of the mapping.
SweepCall ==
    /\ call = Uncalled
    /\ call' = [fn |-> "cleanup_expired_contexts", pc |-> "iterate",
                size |-> Cardinality(Keys(contexts)), visited |-> {},
                expired_users |-> <<>>, deleted |-> 0, raised |-> FALSE,
                removed_live |-> FALSE, ret |-> 0]
    /\ UNCHANGED <<storeVars, clientVars, serviceVars, threads, objs>>

\* One step of the list comprehension: the iterator raises RuntimeError when
\* the size of the mapping has changed, ends when every entry was visited, and
\* otherwise yields the next entry, which is listed when it is expired now.
SweepIterate ==
    /\ call # Uncalled
    /\ call.pc = "iterate"
    /\ LET rest == Keys(contexts) \ call.visited
       IN  call' =
             IF Cardinality(Keys(contexts)) # call.size
             THEN [call EXCEPT !.pc = "done", !.raised = TRUE]
             ELSE IF rest = {}
             THEN [call EXCEPT !.pc = IF call.expired_users = <<>> THEN "return"
                                      ELSE "delete"]
             ELSE LET user_id == CHOOSE u \in rest : \A v \in rest : u <= v
                  IN  [call EXCEPT !.visited = @ \cup {user_id},
                                   !.expired_users =
                                       IF is_expired(contexts[user_id], now)
                                       THEN Append(@, user_id) ELSE @]
    /\ UNCHANGED <<storeVars, clientVars, serviceVars, threads, objs>>

\* `del self.contexts[user_id]` for the next listed user.  A thread that holds
\* the object deleted keeps it.
SweepDelete ==
    /\ call # Uncalled
    /\ call.pc = "delete"
    /\ LET user_id == call.expired_users[call.deleted + 1]
           last == call.deleted + 1 = Len(call.expired_users)
       IN  IF contexts[user_id] = NoCtx
           THEN /\ call' = [call EXCEPT !.pc = "done", !.raised = TRUE]   \* KeyError
                /\ UNCHANGED <<contexts, threads>>
           ELSE /\ contexts' = [contexts EXCEPT ![user_id] = NoCtx]
                /\ threads' = [o \in Threads |->
                       IF threads[o].context = Held /\ threads[o].user_id = user_id
                       THEN [threads[o] EXCEPT !.context = contexts[user_id]]
                       ELSE threads[o]]
                /\ call' = [call EXCEPT
                       !.deleted = @ + 1,
                       !.removed_live = @ \/ ~is_expired(contexts[user_id], now),
                       !.pc = IF last THEN "return" ELSE "delete"]
    /\ UNCHANGED <<max_context_length, session_timeout, now, appended,
                   clientVars, serviceVars, objs>>

\* return len(expired_users)
SweepReturn ==
    /\ call # Uncalled
    /\ call.pc = "return"
    /\ call' = [call EXCEPT !.pc = "done", !.ret = Len(call.expired_users)]
    /\ UNCHANGED <<storeVars, clientVars, serviceVars, threads, objs>>

\* add_user_message is called for user u on thread t.
RequestCall(t, u) ==
    /\ threads[t].pc = "idle"
    /\ threads' = [threads EXCEPT ![t].pc = "test", ![t].user_id = u,
                                  ![t].content = ThreadText(t)]
    /\ UNCHANGED <<storeVars, clientVars, serviceVars, objs, call>>

\* The mapping before the sweep: empty, or with the contexts of the first
\* users, made at time 0 and filled to the cap.
StoreOf(n, timeout) ==
    LET earlier == [i \in 1..MaxLen |->
                       [role |-> "user", content |-> <<"o", "k">>, timestamp |-> 0]]
    IN  [u \in Users |->
            IF u <= n
            THEN [DialogContext(u, MaxLen, timeout, 0) EXCEPT !.messages = earlier]
            ELSE NoCtx]

SweepInit ==
    /\ max_context_length = MaxLen
    /\ session_timeout \in 0..MaxTimeout
    /\ \E n \in 0..Cardinality(Users) : contexts = StoreOf(n, session_timeout)
    /\ now = 0
    /\ appended = [u \in Users |-> <<>>]
    /\ cache = <<>>
    /\ gen = GenIdle
    /\ prev = NoCall
    /\ elapsed = 0
    /\ request_count = 0
    /\ error_count = 0
    /\ svc = SvcIdle
    /\ threads = [t \in Threads |-> ThreadIdle]
    /\ objs = NoObjs
    /\ call = Uncalled

SweepNext ==
    \/ SweepCall
    \/ SweepIterate
    \/ SweepDelete
    \/ SweepReturn
    \/ \E u \in Users : RequestCall(Requester, u)
    \/ ThreadTest(Requester)
    \/ ThreadCreate(Requester)
    \/ ThreadFetch(Requester)
    \/ ThreadStamp(Requester)
    \/ ThreadAppend(Requester)
    \/ ThreadCap(Requester)
    \/ ThreadAssign(Requester)
    \/ Tick

SweepSpec == SweepInit /\ [][SweepNext]_vars

\* ------------------------------------------------ claims on the racing sweep
\* The sweep in progress or over.
Sweeping == call # Uncalled /\ call.fn = "cleanup_expired_contexts"

\* The part of C34 on what is removed: every context the sweep deletes is
\* expired at the moment it is deleted.
C34_RemovesExpiredOnly == Sweeping => ~call.removed_live

\* The part of C34 on the messages: a request that is over and whose context
\* has not expired finds its context, with the message, in the mapping.
C34_KeepsConcurrentAppend ==
    \A t \in Threads :
        (threads[t].pc = "done" /\ ~is_expired(Deref(t), now))
        => /\ threads[t].context = Held
           /\ \E i \in 1..Len(contexts[threads[t].user_id].messages) :
                  contexts[threads[t].user_id].messages[i].content = ThreadText(t)

\* The part of C34 on exceptions: the sweep does not raise.
C34_SweepDoesNotRaise == Sweeping => ~call.raised

\* C34: when cleanup_expired_contexts runs beside a request, it removes no
\* context that is not expired at the moment of the removal, it discards no
\* message a concurrent request appended (a context that get_context created
\* anew, and that was appended to, after the sweep had listed the old one
\* survives the sweep), and it completes without raising while another
\* thread inserts into the mapping.
C34_SweepSafeBesideRequests ==
    /\ Sweeping => ~call.removed_live /\ ~call.raised
    /\ \A t \in Threads :
           (threads[t].pc = "done" /\ ~is_expired(Deref(t), now))
           => threads[t].context = Held
====
